---- MODULE Spec2Model ----
(***************************************************************************)
(* Model of nudl's download orchestrator (src/download.rs): the on-disk    *)
(* state of the output directory, the planner compute_initial_state, the   *)
(* pipeline loop of Downloader::download, and the download and             *)
(* post-process tasks it spawns, over several runs of the command on the   *)
(* same output directory.                                                  *)
(*                                                                         *)
(* A byte is a small natural number; a file's contents is a sequence of    *)
(* bytes.  A path is a record [kind, f, i]: the kind of name, the index of *)
(* the FileInfo in firmware.files and the download index.  Distinct        *)
(* records are distinct names: the manifest is assumed not to reuse a name *)
(* and not to use the tool's temporary extensions.                         *)
(***************************************************************************)
EXTENDS Integers, Sequences, FiniteSets, TLC

(***************************************************************************)
(* Bounds of the model.                                                    *)
(***************************************************************************)
\* Number of bytes of every raw download (a split piece or an unsplit file).
PieceLen == 2
\* Largest value of --concurrency that is explored.
MaxConcurrency == 2
\* The value of --retries.
MaxRetries == 1

(***************************************************************************)
(* The manifest (FirmwareInfo.files): file 1 is an unsplit file in the     *)
(* base directory, file 2 is a split zip of two pieces that lives in a     *)
(* subdirectory.                                                           *)
(***************************************************************************)
FirmwareFiles ==
    << [zip_count |-> 0, directory |-> FALSE],
       [zip_count |-> 2, directory |-> TRUE] >>

Files == 1..Len(FirmwareFiles)

\* The two files of the manifest by kind.
UnsplitFile == CHOOSE f \in Files : FirmwareFiles[f].zip_count = 0
SplitFile == CHOOSE f \in Files : FirmwareFiles[f].zip_count > 0

\* FileInfo::is_split
is_split(f) == FirmwareFiles[f].zip_count > 0

\* FileInfo::download_count
download_count(f) ==
    IF FirmwareFiles[f].zip_count = 0 THEN 1 ELSE FirmwareFiles[f].zip_count

Path(kind, f, i) == [kind |-> kind, f |-> f, i |-> i]

\* The output file of f, file_info.name in the file's directory.
FinalPath(f) == Path("final", f, 0)

\* The directory of f (file_info.directory), when it has one.
DirPath(f) == Path("dir", f, 0)

\* FileInfo::download_name: the name of a raw download.  An unsplit file is
\* downloaded under the name of the output file itself.
download_name(f, i) ==
    IF ~is_split(f) THEN FinalPath(f) ELSE Path("piece", f, i)

\* "{path}.{DOWNLOAD_EXT}"
DownloadPath(f, i) == Path("download", f, i)

\* "{path}.{VERIFY_EXT}" of the single download of an unsplit file.
VerifyPath(f) == Path("verify", f, 0)

ExtractInPlace(f) == FinalPath(f)

\* "{name}.{EXTRACT_EXT}"
ExtractPath(f) == Path("extract", f, 0)

\* "{car.id}.ver"
VersionPath == Path("ver", 0, 0)

(***************************************************************************)
(* What the server holds.                                                  *)
(***************************************************************************)
\* The bytes of download i of file f.
ServerContent(f, i) == [k \in 1..PieceLen |-> 10 * i + k]

RECURSIVE JoinPieces(_, _)
\* The concatenation of the server's downloads 0..n-1 of f.
JoinPieces(f, n) ==
    IF n = 0 THEN << >>
    ELSE JoinPieces(f, n - 1) \o ServerContent(f, n - 1)

\* The single entry of a stored zip archive: the archive without its local
\* header and its central directory (one byte each here).
ZipEntry(archive) ==
    IF Len(archive) < 2 THEN << >> ELSE SubSeq(archive, 2, Len(archive) - 1)

\* The output file that f's downloads make.
Payload(f) ==
    IF is_split(f) THEN ZipEntry(JoinPieces(f, download_count(f)))
    ELSE ServerContent(f, 0)

\* FileInfo::download_size: zip_size of a split file, size of an unsplit one.
download_size(f) == download_count(f) * PieceLen

\* FileInfo.size: the size of the output file.
size(f) == Len(Payload(f))

\* Hasher::update for one byte; a small checksum stands for CRC-32.
CrcUpdate(h, b) == (h * 31 + b + 1) % 251

RECURSIVE Crc32(_)
\* Hasher::new, update over the bytes, finalize.
Crc32(s) ==
    IF s = << >> THEN 0
    ELSE CrcUpdate(Crc32(SubSeq(s, 1, Len(s) - 1)), s[Len(s)])

(***************************************************************************)
(* State.                                                                  *)
(***************************************************************************)
VARIABLES
    fs,           \* the output directory: existing path -> contents
    concurrency,  \* Downloader.concurrency
    retries,      \* Downloader.retries
    keep_raw,     \* Downloader.keep_raw
    crc32,        \* FileInfo.crc32 of every file of the manifest
    pc,           \* where Downloader::download is
    dl_remain,    \* InitialState.dl_remain
    dl_tasks,     \* InitialState.dl_tasks
    pp_tasks,     \* InitialState.pp_tasks
    dl_bytes,     \* InitialState.dl_bytes
    pp_bytes,     \* InitialState.pp_bytes
    dl_running,   \* counter of download()
    pp_running,   \* counter of download()
    tasks_dl,     \* download tasks of the JoinSet (and their results)
    tasks_pp,     \* post-process tasks of the JoinSet (and their results)
    spawned,      \* history: (file, download) of every download task spawned in this run
    client,       \* the last call of NuClient::download: the response and the result
    jfiles,       \* JoinedFile on its own: the contents of the files that are joined
    joined,       \* the JoinedFile
    jread,        \* what was read from the JoinedFile from offset 0, and how it ended
    jseek,        \* the last call of seek or read on the JoinedFile after a seek
    cow,          \* MemoryCowFile on its own: the overlay, with its reader
    panicked,     \* whether a call on the overlay has panicked
    progress_rx,  \* progress reporting on its own: the messages in the channel
    received,     \* the kinds of the messages that the consumer has received
    reporting,    \* Downloader::download as a sender: its position and tasks
    zip,          \* fix_offsets on its own: the bytes of the stream
    disk_ranges,  \* the disk ranges of the next call of fix_offsets
    repairs,      \* the results of the calls of fix_offsets so far
    naming,       \* ZipNamingScheme on its own: the input, the scheme, the names
    file_info     \* FileInfo::try_from on its own: the File and the result

config == << concurrency, retries, keep_raw, crc32 >>
plan == << dl_remain, dl_tasks, pp_tasks, dl_bytes, pp_bytes >>
\* The variables of the download orchestrator.
pipeline == << fs, config, pc, plan, dl_running, pp_running,
               tasks_dl, tasks_pp, spawned >>
\* The variables of the components that are exercised on their own.
joined_vars == << jfiles, joined, jread, jseek >>
cow_vars == << cow, panicked >>
progress_vars == << progress_rx, received, reporting >>
repair_vars == << zip, disk_ranges, repairs >>
manifest_vars == << naming, file_info >>
components == << joined_vars, cow_vars, progress_vars, repair_vars,
                manifest_vars >>
others == << client, components >>
\* What the exercise of one component leaves alone.
outside_joined == << pipeline, client, cow_vars, progress_vars, repair_vars,
                     manifest_vars >>
outside_cow == << pipeline, client, joined_vars, progress_vars, repair_vars,
                  manifest_vars >>
outside_progress == << pipeline, client, joined_vars, cow_vars, repair_vars,
                       manifest_vars >>
outside_repair == << pipeline, client, joined_vars, cow_vars, progress_vars,
                     manifest_vars >>
outside_manifest == << pipeline, client, joined_vars, cow_vars, progress_vars,
                      repair_vars >>
vars == << pipeline, others >>

\* The directory with file p written (created or replaced) with contents c.
WriteFile(d, p, c) == [q \in DOMAIN d \cup {p} |-> IF q = p THEN c ELSE d[q]]

\* Dir::remove_file
RemoveFile(d, p) == [q \in DOMAIN d \ {p} |-> d[q]]

\* Dir::rename: the destination is replaced.
Rename(d, from, to) ==
    [q \in (DOMAIN d \ {from}) \cup {to} |-> IF q = to THEN d[from] ELSE d[q]]

\* Dir::create_dir_all of the file's directory.
CreateDirAll(d, f) ==
    IF FirmwareFiles[f].directory /\ DirPath(f) \notin DOMAIN d
    THEN WriteFile(d, DirPath(f), << >>)
    ELSE d

\* Whether the directory that holds f's files can be opened.
DirOpens(d, f) == FirmwareFiles[f].directory => DirPath(f) \in DOMAIN d

(***************************************************************************)
(* compute_initial_state                                                   *)
(***************************************************************************)
EmptyState ==
    [dl_bytes |-> 0, pp_bytes |-> 0, dl_remain |-> [f \in Files |-> 0],
     dl_tasks |-> << >>, pp_tasks |-> << >>]

DownloadParams(f, i, start) ==
    [file_index |-> f, download_index |-> i, start_offset |-> start]

PostProcessParams(f, clean_only) == [file_index |-> f, clean_only |-> clean_only]

PlanDownloadUncounted(d, st, f, i) ==
    IF download_name(f, i) \in DOMAIN d
    THEN [st EXCEPT !.dl_bytes = @ + Len(d[download_name(f, i)])]
    ELSE IF ~is_split(f) /\ VerifyPath(f) \in DOMAIN d
    THEN [st EXCEPT !.dl_bytes = @ + Len(d[VerifyPath(f)])]
    ELSE LET have == IF DownloadPath(f, i) \in DOMAIN d
                     THEN Len(d[DownloadPath(f, i)]) ELSE 0
         IN  [st EXCEPT !.dl_tasks = Append(@, DownloadParams(f, i, have)),
                        !.dl_remain[f] = @ + 1]

\* The size of the temporary file of download i of f, 0 when there is none
\* (stat_if_exists(download_path), unwrap_or_default).
ResumeFromStart(d, f, i) == 0
ResumeOffset(d, f, i) ==
    IF DownloadPath(f, i) \in DOMAIN d THEN Len(d[DownloadPath(f, i)]) ELSE 0

\* One iteration of the loop over the downloads of a file.
PlanDownload(d, st, f, i) ==
    IF download_name(f, i) \in DOMAIN d
    THEN \* Completed raw download.
         [st EXCEPT !.dl_bytes = @ + Len(d[download_name(f, i)])]
    ELSE IF ~is_split(f) /\ VerifyPath(f) \in DOMAIN d
    THEN \* Unverified, but completed raw download of unsplit file.
         [st EXCEPT !.dl_bytes = @ + Len(d[VerifyPath(f)])]
    ELSE \* Incomplete raw download.
         LET have == ResumeOffset(d, f, i)
         IN  [st EXCEPT !.dl_bytes = @ + have,
                        !.dl_tasks = Append(@, DownloadParams(f, i, have)),
                        !.dl_remain[f] = @ + 1]

RECURSIVE PlanDownloads(_, _, _, _)
\* The loop over the downloads 0..n-1 of file f.
PlanDownloads(d, st, f, n) ==
    IF n = 0 THEN st
    ELSE PlanDownload(d, PlanDownloads(d, st, f, n - 1), f, n - 1)

RECURSIVE PlanMissingDirUncounted(_, _, _)
PlanMissingDirUncounted(st, f, n) ==
    IF n = 0 THEN st
    ELSE LET prev == PlanMissingDirUncounted(st, f, n - 1)
         IN  [prev EXCEPT !.dl_tasks = Append(@, DownloadParams(f, n - 1, 0))]

RECURSIVE PlanMissingDir(_, _, _)
\* The file's directory does not exist: every download starts from 0.
PlanMissingDir(st, f, n) ==
    IF n = 0 THEN st
    ELSE LET prev == PlanMissingDir(st, f, n - 1)
         IN  [prev EXCEPT !.dl_tasks = Append(@, DownloadParams(f, n - 1, 0)),
                          !.dl_remain[f] = @ + 1]

\* `*remain == 0` after the loop over the downloads of f.
NothingQueued(after, f) == after.dl_tasks = << >>
NothingRemains(after, f) == after.dl_remain[f] = 0

PlanFileNoSweep(d, st, f) ==
    IF ~DirOpens(d, f)
    THEN PlanMissingDir(st, f, download_count(f))
    ELSE IF FinalPath(f) \in DOMAIN d
    THEN [st EXCEPT !.dl_bytes = @ + download_size(f), !.pp_bytes = @ + size(f)]
    ELSE LET after == PlanDownloads(d, st, f, download_count(f))
         IN  IF after.dl_remain[f] = 0
             THEN [after EXCEPT !.pp_tasks = Append(@, PostProcessParams(f, FALSE))]
             ELSE after

\* One iteration of the loop over firmware.files.
PlanFile(d, st, f) ==
    IF ~DirOpens(d, f)
    THEN PlanMissingDir(st, f, download_count(f))
    ELSE IF FinalPath(f) \in DOMAIN d
    THEN \* Downloaded and post-processed.
         LET done == [st EXCEPT !.dl_bytes = @ + download_size(f),
                                !.pp_bytes = @ + size(f)]
         IN  IF is_split(f)
             THEN [done EXCEPT !.pp_tasks = Append(@, PostProcessParams(f, TRUE))]
             ELSE done
    ELSE LET after == PlanDownloads(d, st, f, download_count(f))
         IN  IF NothingRemains(after, f)
             THEN [after EXCEPT !.pp_tasks = Append(@, PostProcessParams(f, FALSE))]
             ELSE after

RECURSIVE PlanFiles(_, _)
PlanFiles(d, n) ==
    IF n = 0 THEN EmptyState ELSE PlanFile(d, PlanFiles(d, n - 1), n)

\* Downloader::compute_initial_state on the directory d.
compute_initial_state(d) == PlanFiles(d, Len(FirmwareFiles))

PlannerCreatesDirs(d) == CreateDirAll(d, SplitFile)

\* The directory after compute_initial_state: it only calls open_dir and
\* metadata.
PlannerDirectory(d) == d

(***************************************************************************)
(* JoinedFile.                                                             *)
(***************************************************************************)
\* Largest number of files that are joined, largest size of one of them and
\* largest read buffer.
MaxFiles == 3
MaxFileLen == 2
MaxBuf == 2

\* Option::None for cur_split and cur_file.
None == -1

\* JoinedFile::new.
JoinedNew ==
    [paths |-> << >>, splits |-> << >>, cur_split |-> None, cur_file |-> None,
     cur_offset |-> 0]

\* JoinedFile::len: the end of the last split.
joined_len(j) == IF j.splits = << >> THEN 0 ELSE j.splits[Len(j.splits)].end

\* JoinedFile::add_file for the file `path` whose metadata reports file_size.
\* Splits are counted from 0 as in the source: split k is splits[k + 1].
add_file(j, path, file_size) ==
    LET prev_len == joined_len(j)
        cur_len == prev_len + file_size
        splits == Append(j.splits, [start |-> prev_len, end |-> cur_len])
    IN  [j EXCEPT !.paths = Append(@, path),
                  !.splits = splits,
                  !.cur_split = IF @ = None /\ j.cur_offset < cur_len
                                THEN Len(splits) - 1 ELSE @]

EnsureOpenedOnce(j) ==
    IF j.cur_file # None THEN j ELSE [j EXCEPT !.cur_file = j.cur_split]

\* JoinedFile::ensure_opened with a split selected.
ensure_opened(j) ==
    IF j.cur_file = j.cur_split THEN j ELSE [j EXCEPT !.cur_file = j.cur_split]

\* The largest number of bytes read_at can deliver from `file` at `offset`
\* into a buffer of to_read bytes.
Available(file, offset, to_read) ==
    IF Len(file) - offset < to_read
    THEN (IF Len(file) > offset THEN Len(file) - offset ELSE 0)
    ELSE to_read

\* JoinedFile::read into a buffer of buf_len bytes, when the system call
\* delivers n bytes: the file after the call, the result and the bytes.
joined_read(j, files, buf_len, n) ==
    IF buf_len = 0 \/ j.cur_split = None
    THEN [file |-> j, result |-> "Ok", data |-> << >>]
    ELSE LET opened == ensure_opened(j)
             range == j.splits[j.cur_split + 1]
             offset == j.cur_offset - range.start
             after == [opened EXCEPT !.cur_offset = @ + n]
         IN  IF n = 0
             THEN [file |-> opened, result |-> "UnexpectedEof", data |-> << >>]
             ELSE [file |-> IF after.cur_offset = range.end
                            THEN [after EXCEPT !.cur_split =
                                     IF j.cur_split + 1 = Len(j.splits)
                                     THEN None ELSE j.cur_split + 1]
                            ELSE after,
                   result |-> "Ok",
                   data |-> SubSeq(files[opened.paths[opened.cur_file + 1]],
                                   offset + 1, offset + n)]

\* The number of bytes JoinedFile::read asks of read_at.
ToRead(j, buf_len) ==
    LET remain == j.splits[j.cur_split + 1].end - j.cur_offset
    IN  IF remain < buf_len THEN remain ELSE buf_len

\* Nothing was read yet.
NoRead == [data |-> << >>, result |-> "none"]

\* The next file is added to the view.
AddFile ==
    /\ Len(joined.paths) < Len(jfiles)
    /\ LET path == Len(joined.paths) + 1
       IN  joined' = add_file(joined, path, Len(jfiles[path]))
    /\ UNCHANGED << jfiles, jread, jseek, outside_joined >>

\* One read of the loop that reads the view to its end, with a buffer of
\* buf_len bytes; the system call may deliver fewer bytes than asked.
ReadJoined ==
    /\ Len(joined.paths) = Len(jfiles)
    /\ jread.result = "none"
    /\ \E buf_len \in 1..MaxBuf :
         \E n \in 0..buf_len :
            /\ IF joined.cur_split = None THEN n = 0
               ELSE LET to_read == ToRead(joined, buf_len)
                        have == Available(jfiles[joined.paths[joined.cur_split + 1]],
                                          joined.cur_offset
                                              - joined.splits[joined.cur_split + 1].start,
                                          to_read)
                    IN  IF have = 0 THEN n = 0 ELSE n \in 1..have
            /\ LET r == joined_read(joined, jfiles, buf_len, n)
               IN  /\ joined' = r.file
                   /\ jread' = [data |-> jread.data \o r.data,
                                result |-> IF r.result # "Ok" THEN "err"
                                           ELSE IF r.data = << >> THEN "eof"
                                           ELSE "none"]
    /\ UNCHANGED << jfiles, jseek, outside_joined >>

\* How far past the end of the view a seek goes.
MaxPast == 1

\* No seek was called yet.  `beyond` tells that the last successful seek
\* returned an offset at or after len().
NoSeek == [op |-> "none", result |-> "none", value |-> 0, data |-> << >>,
           beyond |-> FALSE]

\* splits.binary_search_by of JoinedFile::seek: the split that holds offset,
\* if there is one.
SplitOf(j, offset) ==
    LET found == {k \in 0..(Len(j.splits) - 1) :
                     /\ ~(j.splits[k + 1].start > offset)
                     /\ ~(j.splits[k + 1].end <= offset)}
    IN  IF found = {} THEN None ELSE CHOOSE k \in found : TRUE

\* JoinedFile::seek to SeekFrom::Start(o), End(o) or Current(o): the file
\* after the call, the result and the offset that is returned.
joined_seek(j, whence, o) ==
    LET new_offset == IF whence = "Start" THEN o
                      ELSE IF whence = "End" THEN joined_len(j) + o
                      ELSE j.cur_offset + o
    IN  IF new_offset < 0
        THEN [file |-> j, result |-> "InvalidInput", value |-> 0]
        ELSE IF j.cur_offset # new_offset
        THEN [file |-> [j EXCEPT !.cur_offset = new_offset,
                                 !.cur_split = SplitOf(j, new_offset)],
              result |-> "Ok", value |-> new_offset]
        ELSE [file |-> j, result |-> "Ok", value |-> j.cur_offset]

\* What read_at may deliver to a read into a buffer of buf_len bytes.
Delivered(j, files, buf_len) ==
    IF j.cur_split = None THEN {0}
    ELSE LET have == Available(files[j.paths[j.cur_split + 1]],
                               j.cur_offset - j.splits[j.cur_split + 1].start,
                               ToRead(j, buf_len))
         IN  IF have = 0 THEN {0} ELSE 1..have

\* A call of seek on the complete view.
SeekJoined ==
    /\ Len(joined.paths) = Len(jfiles)
    /\ \E whence \in {"Start", "End", "Current"} :
         \E o \in (0 - joined_len(joined) - MaxPast)..(joined_len(joined) + MaxPast) :
            LET r == joined_seek(joined, whence, o)
            IN  /\ whence = "Start" => o >= 0
                /\ r.file.cur_offset <= joined_len(joined) + MaxPast
                /\ joined' = r.file
                /\ jseek' = [op |-> "seek", result |-> r.result,
                             value |-> r.value, data |-> << >>,
                             beyond |-> IF r.result = "Ok"
                                        THEN r.value >= joined_len(joined)
                                        ELSE jseek.beyond]
    /\ UNCHANGED << jfiles, jread, outside_joined >>

\* A call of read on the complete view, wherever its offset is.
ReadSought ==
    /\ Len(joined.paths) = Len(jfiles)
    /\ \E buf_len \in 1..MaxBuf :
         \E n \in Delivered(joined, jfiles, buf_len) :
            LET r == joined_read(joined, jfiles, buf_len, n)
            IN  /\ joined' = r.file
                /\ jseek' = [op |-> "read", result |-> r.result,
                             value |-> Len(r.data), data |-> r.data,
                             beyond |-> jseek.beyond]
    /\ UNCHANGED << jfiles, jread, outside_joined >>

(***************************************************************************)
(* MemoryCowFile.                                                          *)
(***************************************************************************)
\* Largest block size of the overlay.
MaxBlock == 2

\* Largest size of the reader under the overlay: one more than a block, so
\* that a write can begin and end inside two blocks of original data.
MaxReader == MaxFileLen + 1

\* Largest offset that is sought and largest size the overlay grows to.
MaxOffset == MaxFileLen + 1
MaxSize == MaxOffset + MaxBuf

Min(a, b) == IF a < b THEN a ELSE b

\* u64::div_ceil.
div_ceil(a, b) == (a + b - 1) \div b

\* MemoryCowFile::new over a reader that holds `data`: the size is the end of
\* the reader, which is rewound.
MemoryCowNew(data, block_size) ==
    [reader |-> [data |-> data, pos |-> 0],
     block_size |-> block_size,
     blocks |-> << >>,
     orig_size |-> Len(data),
     cur_size |-> Len(data),
     cur_offset |-> 0,
     need_seek |-> FALSE]

IsPastOriginal(c, block) == block * c.block_size >= c.orig_size

\* MemoryCowFile::is_cow_block.
is_cow_block(c, block) ==
    block \in DOMAIN c.blocks \/ block * c.block_size >= c.orig_size

\* What the reader's read can deliver into a buffer of to_read bytes.
ReaderAvailable(r, to_read) == Available(r.data, r.pos, to_read)

ReadToLastBlock(c, start_block, end_block) == end_block

\* The block of read at which the kind of block changes, or end_block.
ReadEndBlock(c, start_block, end_block) ==
    LET first_is_cow == is_cow_block(c, start_block)
        changes == {b \in (start_block + 1)..(end_block - 1) :
                        is_cow_block(c, b) # first_is_cow}
    IN  IF changes = {} THEN end_block
        ELSE CHOOSE b \in changes : \A d \in changes : b <= d

\* The byte of the overlay's blocks at offset o: of the map, or of a hole.
BlockByte(c, o) ==
    IF (o \div c.block_size) \in DOMAIN c.blocks
    THEN c.blocks[o \div c.block_size][(o % c.block_size) + 1]
    ELSE 0

\* The result of a call on the overlay: the overlay after it, how it ended
\* ("Ok", the kind of the io::Error, or "Panic") and the bytes delivered.
CowResult(c, result, data) == [file |-> c, result |-> result, data |-> data]

\* The branch of read for blocks of the overlay: the bytes come from the map
\* or are the zeroes of a hole.
ReadCow(c, buf_remain) ==
    CowResult([c EXCEPT !.cur_offset = @ + buf_remain, !.need_seek = TRUE],
              "Ok",
              [k \in 1..buf_remain |-> BlockByte(c, c.cur_offset + k - 1)])

ReadThroughUnsought(c, buf_remain, n, debug) ==
    LET sought == [c EXCEPT !.need_seek = FALSE]
        to_read == IF c.orig_size >= c.cur_offset
                   THEN Min(c.orig_size - c.cur_offset, buf_remain)
                   ELSE buf_remain
        got == Min(n, ReaderAvailable(sought.reader, to_read))
        bytes == SubSeq(sought.reader.data, sought.reader.pos + 1,
                        sought.reader.pos + got)
        after == [sought EXCEPT !.reader.pos = @ + got, !.cur_offset = @ + got]
    IN  IF debug /\ (c.orig_size < c.cur_offset \/ to_read = 0)
        THEN CowResult(sought, "Panic", << >>)
        ELSE CowResult(after, "Ok", bytes)

\* The branch of read for blocks of the reader, whose read delivers n bytes.
\* orig_size - cur_offset is a u64 subtraction: below zero it panics with
\* debug assertions and wraps without them.
ReadThrough(c, buf_remain, n, debug) ==
    LET sought == IF c.need_seek
                  THEN [c EXCEPT !.reader.pos = c.cur_offset, !.need_seek = FALSE]
                  ELSE c
        to_read == IF c.orig_size >= c.cur_offset
                   THEN Min(c.orig_size - c.cur_offset, buf_remain)
                   ELSE buf_remain
        got == Min(n, ReaderAvailable(sought.reader, to_read))
        bytes == SubSeq(sought.reader.data, sought.reader.pos + 1,
                        sought.reader.pos + got)
        after == [sought EXCEPT !.reader.pos = @ + got, !.cur_offset = @ + got]
    IN  IF debug /\ (c.orig_size < c.cur_offset \/ to_read = 0)
        THEN CowResult(sought, "Panic", << >>)
        ELSE IF after.cur_offset = c.orig_size /\ to_read > got
        THEN CowResult([after EXCEPT !.cur_offset = @ + (to_read - got)], "Ok",
                       bytes \o [k \in 1..(to_read - got) |-> -1])
        ELSE CowResult(after, "Ok", bytes)

\* Whether a read into a buffer of buf_len bytes asks the reader.
ReadsThrough(c, buf_len) ==
    /\ buf_len # 0 /\ c.cur_offset < c.cur_size
    /\ ~is_cow_block(c, c.cur_offset \div c.block_size)

\* MemoryCowFile::read when the reader fails and `?` returns its error: at
\* the seek, which leaves the reader at a position pos that io::Seek does
\* not specify, or at the read, which by the contract of io::Read has read
\* no byte.
read_failed(c, at, pos) ==
    IF at = "seek"
    THEN CowResult([c EXCEPT !.reader.pos = pos], "Err", << >>)
    ELSE CowResult(IF c.need_seek
                   THEN [c EXCEPT !.reader.pos = c.cur_offset, !.need_seek = FALSE]
                   ELSE c,
                   "Err", << >>)

\* MemoryCowFile::read into a buffer of buf_len bytes.
cow_read(c, buf_len, n, debug) ==
    IF buf_len = 0 \/ c.cur_offset >= c.cur_size
    THEN CowResult(c, "Ok", << >>)
    ELSE LET start_block == c.cur_offset \div c.block_size
             first_remain == Min(c.cur_size - c.cur_offset, buf_len)
             end_block == ReadEndBlock(c, start_block,
                              div_ceil(c.cur_offset + first_remain, c.block_size))
             end_offset == Min(end_block * c.block_size, c.cur_size)
             buf_remain == Min(end_offset - c.cur_offset, buf_len)
         IN  IF is_cow_block(c, start_block)
             THEN ReadCow(c, buf_remain)
             ELSE ReadThrough(c, buf_remain, n, debug)

\* The blocks of a write to [cur_offset, end_offset) that are read from the
\* reader first: those not in the map that hold original data and are not
\* overwritten completely.
CowBlocks(c, end_offset) ==
    {b \in (c.cur_offset \div c.block_size)..(div_ceil(end_offset, c.block_size) - 1) :
        /\ b \notin DOMAIN c.blocks
        /\ b * c.block_size < c.orig_size
        /\ (b * c.block_size < c.cur_offset \/ (b + 1) * c.block_size > end_offset)}

\* The block b as read from the reader: the original bytes, then zeroes.
OriginalBlock(c, b) ==
    [k \in 1..c.block_size |->
        IF b * c.block_size + k <= c.orig_size
        THEN c.reader.data[b * c.block_size + k] ELSE 0]

ReaderWrittenThrough(c, blocks) ==
    [c.reader EXCEPT !.data =
        [k \in 1..Len(@) |->
            IF ((k - 1) \div c.block_size) \in DOMAIN c.blocks
            THEN BlockByte(c, k - 1) ELSE @[k]]]

\* The reader after the first pass of write: it was sought to, and read to
\* the end of, each of the blocks in turn.
ReaderAfterCow(c, blocks) ==
    IF blocks = {} THEN c.reader
    ELSE LET b == CHOOSE x \in blocks : \A y \in blocks : y <= x
         IN  [c.reader EXCEPT !.pos = Min((b + 1) * c.block_size, c.orig_size)]

\* MemoryCowFile::write of the bytes buf.
cow_write(c, buf) ==
    IF buf = << >> THEN CowResult(c, "Ok", << >>)
    ELSE LET end_offset == c.cur_offset + Len(buf)
             touched == (c.cur_offset \div c.block_size)
                            ..(div_ceil(end_offset, c.block_size) - 1)
             copied == CowBlocks(c, end_offset)
             before(b) == IF b \in DOMAIN c.blocks THEN c.blocks[b]
                          ELSE IF b \in copied THEN OriginalBlock(c, b)
                          ELSE [k \in 1..c.block_size |-> 0]
             written(b) == [k \in 1..c.block_size |->
                              LET o == b * c.block_size + k - 1
                              IN  IF o >= c.cur_offset /\ o < end_offset
                                  THEN buf[o - c.cur_offset + 1]
                                  ELSE before(b)[k]]
         IN  CowResult([c EXCEPT
                           !.need_seek = TRUE,
                           !.reader = ReaderAfterCow(c, copied),
                           !.blocks = [b \in DOMAIN c.blocks \cup touched |->
                                          IF b \in touched THEN written(b)
                                          ELSE c.blocks[b]],
                           !.cur_offset = end_offset,
                           !.cur_size = IF end_offset > @ THEN end_offset ELSE @],
                       "Ok", << >>)

\* The blocks that the first pass of write has read when its k-th read of
\* the reader fails.
ReadBefore(c, buf, k) ==
    LET copied == CowBlocks(c, c.cur_offset + Len(buf))
    IN  {b \in copied : Cardinality({d \in copied : d < b}) < k - 1}

\* The blocks of the overlay after the first pass of write has inserted the
\* blocks of `done` as read from the reader.
Inserted(c, done) ==
    [b \in DOMAIN c.blocks \cup done |->
        IF b \in done THEN OriginalBlock(c, b) ELSE c.blocks[b]]

WriteInterleaved(c, buf, k, pos) ==
    LET done == ReadBefore(c, buf, k)
    IN  CowResult([c EXCEPT !.need_seek = TRUE,
                            !.reader.pos = pos,
                            !.blocks = [b \in DOMAIN c.blocks \cup done |->
                                           cow_write(c, buf).file.blocks[b]]],
                  "Err", << >>)

\* MemoryCowFile::write of the bytes buf when the k-th seek or read_exact of
\* the reader fails and `?` returns its error: the blocks read before are in
\* the map, and the reader is at a position pos that a failed call does not
\* specify.
write_failed(c, buf, k, pos) ==
    CowResult([c EXCEPT !.need_seek = TRUE,
                        !.reader.pos = pos,
                        !.blocks = Inserted(c, ReadBefore(c, buf, k))],
              "Err", << >>)

SeekWithoutReseek(c, whence, o) ==
    LET new_offset == IF whence = "Start" THEN o
                      ELSE IF whence = "End" THEN c.cur_size + o
                      ELSE c.cur_offset + o
    IN  IF new_offset < 0 THEN CowResult(c, "InvalidInput", << >>)
        ELSE CowResult([c EXCEPT !.cur_offset = new_offset], "Ok", << >>)

\* MemoryCowFile::seek to SeekFrom::Start(o), End(o) or Current(o).
cow_seek(c, whence, o) ==
    LET new_offset == IF whence = "Start" THEN o
                      ELSE IF whence = "End" THEN c.cur_size + o
                      ELSE c.cur_offset + o
    IN  IF new_offset < 0 THEN CowResult(c, "InvalidInput", << >>)
        ELSE IF c.cur_offset # new_offset
        THEN CowResult([c EXCEPT !.cur_offset = new_offset, !.need_seek = TRUE],
                       "Ok", << >>)
        ELSE CowResult(c, "Ok", << >>)

\* A call of seek.
CowSeek ==
    /\ ~panicked
    /\ \E whence \in {"Start", "End", "Current"}, o \in (0 - MaxOffset)..MaxOffset :
          LET r == cow_seek(cow, whence, o)
          IN  /\ whence = "Start" => o >= 0
              /\ r.file.cur_offset <= MaxOffset
              /\ cow' = r.file
    /\ UNCHANGED << panicked, outside_cow >>

\* A call of read; the reader may deliver fewer bytes than asked, and the
\* build has debug assertions or not.
CowRead ==
    /\ ~panicked
    /\ \/ \E buf_len \in 0..MaxBuf, n \in 1..MaxBuf, debug \in BOOLEAN :
             LET r == cow_read(cow, buf_len, n, debug)
             IN  /\ cow' = r.file
                 /\ panicked' = (r.result = "Panic")
       \/ \E buf_len \in 1..MaxBuf, at \in {"seek", "read"},
               pos \in 0..Len(cow.reader.data) :
             /\ ReadsThrough(cow, buf_len)
             /\ at = "seek" => cow.need_seek
             /\ cow' = read_failed(cow, at, pos).file
             /\ panicked' = FALSE
    /\ UNCHANGED outside_cow

\* A call of write, of bytes that differ from those of the reader and of
\* a hole.
CowWrite ==
    /\ ~panicked
    /\ \E n \in 0..MaxBuf :
          /\ cow.cur_offset + n <= MaxSize
          /\ \/ cow' = cow_write(cow, [k \in 1..n |-> 9]).file
             \/ /\ n > 0
                /\ \E k \in 1..Cardinality(CowBlocks(cow, cow.cur_offset + n)),
                      pos \in 0..Len(cow.reader.data) :
                      cow' = write_failed(cow, [j \in 1..n |-> 9], k, pos).file
    /\ UNCHANGED << panicked, outside_cow >>

(***************************************************************************)
(* NuClient::download.                                                     *)
(***************************************************************************)
\* StatusCode::PARTIAL_CONTENT and StatusCode::RANGE_NOT_SATISFIABLE.
PARTIAL_CONTENT == 206
RANGE_NOT_SATISFIABLE == 416

\* The statuses of the GET that are explored; 0 stands for a request that
\* got no response (send() failed).
Statuses == {0, 200, PARTIAL_CONTENT, 404, RANGE_NOT_SATISFIABLE, 500}

\* The statuses of the follow-up HEAD that are explored, 0 as above.
HeadStatuses == {0, 200, 404}

\* The Content-Length of the HEAD response as parsed: -1 stands for a header
\* that is missing or does not parse as u64.
HeadLengths == {-1} \cup 0..(PieceLen + 1)

\* What the server answers to the GET and, after a 416, to the HEAD.
Response(status, head_status, head_length) ==
    [status |-> status, head_status |-> head_status, head_length |-> head_length]

Responses ==
    {Response(s, 0, -1) : s \in Statuses \ {RANGE_NOT_SATISFIABLE}}
        \cup {Response(RANGE_NOT_SATISFIABLE, 0, -1)}
        \cup {Response(RANGE_NOT_SATISFIABLE, h, l) :
                  h \in HeadStatuses \ {0}, l \in HeadLengths}

\* Response::error_for_status: a client or a server error status.
is_error(status) == status \in 400..599

DownloadWithoutHead(resp, start) ==
    IF resp.status = 0 THEN "Request"
    ELSE IF is_error(resp.status) THEN "Request"
    ELSE IF resp.status # PARTIAL_CONTENT THEN "BadHttpResponse"
    ELSE "Stream"

DownloadStatusUnchecked(resp, start) ==
    IF resp.status = 0 THEN "Request"
    ELSE IF /\ resp.status = RANGE_NOT_SATISFIABLE
            /\ (resp.head_status = 0 \/ is_error(resp.head_status))
    THEN "Request"
    ELSE IF resp.status = RANGE_NOT_SATISFIABLE /\ resp.head_length = start
    THEN "AlreadyComplete"
    ELSE IF resp.status # PARTIAL_CONTENT THEN "BadHttpResponse"
    ELSE "Stream"

\* NuClient::download(firmware, file, index, start): the stream, or the
\* variant of client::Error it fails with.
download(resp, start) ==
    IF resp.status = 0 THEN "Request"
    ELSE IF /\ resp.status = RANGE_NOT_SATISFIABLE
            /\ (resp.head_status = 0 \/ is_error(resp.head_status))
    THEN "Request"
    ELSE IF resp.status = RANGE_NOT_SATISFIABLE /\ resp.head_length = start
    THEN "AlreadyComplete"
    ELSE IF is_error(resp.status) THEN "Request"
    ELSE IF resp.status # PARTIAL_CONTENT THEN "BadHttpResponse"
    ELSE "Stream"

\* No call of NuClient::download was made yet.
NoCall == [resp |-> Response(0, 0, -1), result |-> "none", start |-> 0,
           calls |-> 0]

(***************************************************************************)
(* split.rs: fix_offsets on a stream of bytes.  A byte is 0..255 and the   *)
(* fields are little-endian as in the source.  Offsets that are added are  *)
(* kept as bytes, so that they have the width of the source; an offset     *)
(* that is sought to is a number, or Far when it is past anything a stream *)
(* here holds.                                                             *)
(***************************************************************************)
MAGIC_CD == << 80, 75, 1, 2 >>
MAGIC_LOCAL == << 80, 75, 3, 4 >>
MAGIC_EOCD == << 80, 75, 5, 6 >>
MAGIC_EOCD64 == << 80, 75, 6, 6 >>
MAGIC_EOCD64_LOCATOR == << 80, 75, 6, 7 >>
MAGIC_SPLIT == << 80, 75, 7, 8 >>

\* The size of the search window, of the EOCD, of the zip64 EOCD locator, of
\* the zip64 EOCD and of the fixed part of a central directory entry.
SEARCH_WINDOW == 65535 + 22 + 20
EOCD_SIZE == 22
LOCATOR_SIZE == 20
EOCD64_SIZE == 56
CD_ENTRY_SIZE == 46
\* The disk number of an entry whose disk is in its zip64 extra field.
DISK_IN_ZIP64 == 65535
\* The identifier of the zip64 extended information extra field and the
\* least length of its data that is read.
ZIP64_EXTRA_ID == 1
ZIP64_EXTRA_SIZE == 28

\* An offset past the end of every stream of the model.
Far == 16777216

\* The slice s[a..b] of the source: the bytes at offsets a .. b-1.
Slice(s, a, b) == SubSeq(s, a + 1, b)

\* w zero bytes.
Zeros(w) == [k \in 1..w |-> 0]

\* copy_from_slice or write_all of bytes at offset a of s, within s.
Put(s, a, bytes) ==
    [k \in 1..Len(s) |->
        IF k > a /\ k <= a + Len(bytes) THEN bytes[k - a] ELSE s[k]]

\* u16::from_le_bytes.
U16(b) == b[1] + 256 * b[2]

\* u32::from_le_bytes and u64::from_le_bytes as an offset or a count.
Val(b) ==
    IF \A k \in 4..Len(b) : b[k] = 0
    THEN b[1] + 256 * b[2] + 65536 * b[3]
    ELSE Far

\* to_le_bytes of a number below Far, in w bytes.
ToLE(n, w) ==
    [k \in 1..w |->
        IF k = 1 THEN n % 256
        ELSE IF k = 2 THEN (n \div 256) % 256
        ELSE IF k = 3 THEN (n \div 65536) % 256
        ELSE 0]

\* A little-endian number widened to u64.
Widen(b) == b \o Zeros(8 - Len(b))

RECURSIVE Carry(_, _, _)
\* The carry into byte k of the sum of the u64 values a and b.
Carry(a, b, k) ==
    IF k = 1 THEN 0 ELSE (a[k - 1] + b[k - 1] + Carry(a, b, k - 1)) \div 256

\* u64::checked_add of the range's start and a disk offset: the sum as bytes
\* and whether it overflowed.
checked_add(start, doffset) ==
    LET a == ToLE(start, 8)
        b == Widen(doffset)
    IN  [sum |-> [k \in 1..8 |-> (a[k] + b[k] + Carry(a, b, k)) % 256],
         overflow |-> Carry(a, b, 9) = 1]

MinU32Unclamped(sum) == SubSeq(sum, 1, 4)

\* (foffset.min(u32::MAX.into()) as u32).to_le_bytes()
MinU32(sum) ==
    IF \E k \in 5..8 : sum[k] # 0 THEN << 255, 255, 255, 255 >>
    ELSE SubSeq(sum, 1, 4)

\* disk_ranges.get(disk) is Some.
HasDisk(ranges, disk) == disk < Len(ranges)

\* The result of a call that has ended, with the stream as it is then.
Repaired(result, file) == [result |-> result, file |-> file]

RECURSIVE FixExtra(_, _, _, _)
\* The loop over the extra fields of an entry: cd is the central directory as
\* fixed so far, and the fields that remain are cd[q..end].
FixExtra(cd, q, end, ranges) ==
    IF q = end THEN Repaired("Ok", cd)
    ELSE IF end - q < 4 THEN Repaired("CdExtraTruncated", cd)
    ELSE LET id == U16(Slice(cd, q, q + 2))
             field_size == U16(Slice(cd, q + 2, q + 4))
             data == q + 4
         IN  IF end - data < field_size THEN Repaired("CdExtraTruncated", cd)
             ELSE IF id # ZIP64_EXTRA_ID
             THEN FixExtra(cd, data + field_size, end, ranges)
             ELSE IF end - data < ZIP64_EXTRA_SIZE
             THEN Repaired("CdExtraTruncated", cd)
             ELSE LET entry64_lh_doffset == Slice(cd, data + 16, data + 24)
                      entry64_disk == Val(Slice(cd, data + 24, data + 28))
                  IN  IF ~HasDisk(ranges, entry64_disk)
                      THEN Repaired("MissingDisk", cd)
                      ELSE LET added == checked_add(ranges[entry64_disk + 1].start,
                                                    entry64_lh_doffset)
                               fixed == Put(Put(cd, data + 16, added.sum),
                                            data + 24, Zeros(4))
                           IN  IF added.overflow
                               THEN Repaired("OutOfBounds", cd)
                               ELSE FixExtra(fixed, data + field_size, end, ranges)

\* The 32-bit fields of the entry at cd[p..] when its disk is not 0xffff.
FixEntry32(cd, p, ranges) ==
    LET entry32_disk == U16(Slice(cd, p + 34, p + 36))
    IN  IF entry32_disk = DISK_IN_ZIP64 THEN Repaired("Ok", cd)
        ELSE IF ~HasDisk(ranges, entry32_disk) THEN Repaired("MissingDisk", cd)
        ELSE LET added == checked_add(ranges[entry32_disk + 1].start,
                                      Slice(cd, p + 42, p + 46))
             IN  IF added.overflow THEN Repaired("OutOfBounds", cd)
                 ELSE Repaired("Ok", Put(Put(cd, p + 34, Zeros(2)),
                                         p + 42, MinU32(added.sum)))

RECURSIVE FixEntries(_, _, _, _, _)
\* The loop over the entries of the central directory: cd_buf is cd[p..] and
\* `entry` counts the entries done.  Slicing past the end of the buffer
\* panics.
FixEntries(cd, p, entry, cd_entries, ranges) ==
    IF entry = cd_entries
    THEN Repaired(IF p # Len(cd) THEN "CdExtraSuffix" ELSE "Ok", cd)
    ELSE IF Len(cd) - p < CD_ENTRY_SIZE THEN Repaired("CdTruncated", cd)
    ELSE IF Slice(cd, p, p + 4) # MAGIC_CD THEN Repaired("InvalidCdMagic", cd)
    ELSE LET filename_len == U16(Slice(cd, p + 28, p + 30))
             extra_len == U16(Slice(cd, p + 30, p + 32))
             comment_len == U16(Slice(cd, p + 32, p + 34))
             entry_size == CD_ENTRY_SIZE + filename_len + extra_len + comment_len
             fixed32 == FixEntry32(cd, p, ranges)
             extra == p + CD_ENTRY_SIZE + filename_len
         IN  IF fixed32.result # "Ok" THEN fixed32
             ELSE IF extra + extra_len > Len(cd) THEN Repaired("Panic", cd)
             ELSE LET fixed == FixExtra(fixed32.file, extra, extra + extra_len,
                                        ranges)
                  IN  IF fixed.result # "Ok" THEN fixed
                      ELSE IF p + entry_size > Len(cd) THEN Repaired("Panic", cd)
                      ELSE FixEntries(fixed.file, p + entry_size, entry + 1,
                                      cd_entries, ranges)

\* The central directory is read, fixed and written back; cd_entries,
\* cd_size and cd_foffset are numbers (or Far).
FixCentralDirectory(file, cd_entries, cd_size, cd_foffset, ranges) ==
    IF cd_size > 0 /\ cd_foffset + cd_size > Len(file)
    THEN Repaired("Io", file)
    ELSE LET fixed == FixEntries(Slice(file, cd_foffset, cd_foffset + cd_size),
                                 0, 0, cd_entries, ranges)
         IN  IF fixed.result # "Ok" THEN Repaired(fixed.result, file)
             ELSE Repaired("Ok", Put(file, cd_foffset, fixed.file))

\* The zip64 EOCD locator at loc and the zip64 EOCD it points to are fixed,
\* and the central directory is the one the zip64 EOCD names.
FixZip64(file, loc, ranges) ==
    LET eocd64_disk == Val(Slice(file, loc + 4, loc + 8))
    IN  IF ~HasDisk(ranges, eocd64_disk) THEN Repaired("MissingDisk", file)
        ELSE
        LET at == checked_add(ranges[eocd64_disk + 1].start,
                              Slice(file, loc + 8, loc + 16))
            eocd64_foffset == Val(at.sum)
            located == Put(Put(Put(file, loc + 4, Zeros(4)), loc + 8, at.sum),
                           loc + 16, ToLE(1, 4))
        IN  IF at.overflow THEN Repaired("OutOfBounds", file)
            ELSE IF eocd64_foffset + EOCD64_SIZE > Len(file)
            THEN Repaired("Io", located)
            ELSE
            LET eocd64 == Slice(located, eocd64_foffset,
                                eocd64_foffset + EOCD64_SIZE)
                cd64_disk == Val(Slice(eocd64, 20, 24))
            IN  IF Slice(eocd64, 0, 4) # MAGIC_EOCD64
                THEN Repaired("InvalidEocd64Magic", located)
                ELSE IF ~HasDisk(ranges, cd64_disk)
                THEN Repaired("MissingDisk", located)
                ELSE
                LET cd64 == checked_add(ranges[cd64_disk + 1].start,
                                        Slice(eocd64, 48, 56))
                    fixed64 == Put(Put(Put(Put(eocd64, 16, Zeros(4)),
                                           20, Zeros(4)),
                                       24, Slice(eocd64, 32, 40)),
                                   48, cd64.sum)
                IN  IF cd64.overflow THEN Repaired("OutOfBounds", located)
                    ELSE FixCentralDirectory(
                             Put(located, eocd64_foffset, fixed64),
                             Val(Slice(eocd64, 32, 40)),
                             Val(Slice(eocd64, 40, 48)),
                             Val(cd64.sum), ranges)

\* The first offset at or after `from` where the window of four bytes of s
\* is the EOCD magic, or Len(s) when there is none.
FindEocd(s, from) ==
    LET found == {k \in from..(Len(s) - 4) : Slice(s, k, k + 4) = MAGIC_EOCD}
    IN  IF found = {} THEN Len(s)
        ELSE CHOOSE k \in found : \A j \in found : k <= j

\* fix_offsets after the split magic was wiped: the EOCD is searched in the
\* last bytes of the file and fixed, then the zip64 records, then the
\* central directory.
FixFromEocd(file, ranges) ==
    LET file_size == ranges[Len(ranges)].end
        search_size == IF file_size < SEARCH_WINDOW THEN file_size
                       ELSE SEARCH_WINDOW
        window == file_size - search_size
        eocd_foffset == FindEocd(Slice(file, 0, file_size), window)
    IN  IF file_size > Len(file) THEN Repaired("Io", file)
        ELSE IF eocd_foffset = file_size THEN Repaired("EocdNotFound", file)
        ELSE IF file_size - eocd_foffset < EOCD_SIZE
        THEN Repaired("EocdTruncated", file)
        ELSE
        LET cd32_disk == U16(Slice(file, eocd_foffset + 4, eocd_foffset + 6))
            cd32_entries == Slice(file, eocd_foffset + 10, eocd_foffset + 12)
            cd32_size == Slice(file, eocd_foffset + 12, eocd_foffset + 16)
        IN  IF ~HasDisk(ranges, cd32_disk) THEN Repaired("MissingDisk", file)
            ELSE
            LET cd32 == checked_add(ranges[cd32_disk + 1].start,
                                    Slice(file, eocd_foffset + 16,
                                          eocd_foffset + 20))
                fixed == Put(Put(Put(Put(file, eocd_foffset + 4, Zeros(2)),
                                     eocd_foffset + 6, Zeros(2)),
                                 eocd_foffset + 8, cd32_entries),
                             eocd_foffset + 16, MinU32(cd32.sum))
                loc == eocd_foffset - LOCATOR_SIZE
            IN  IF /\ eocd_foffset - window >= LOCATOR_SIZE
                   /\ Slice(file, loc, loc + 4) = MAGIC_EOCD64_LOCATOR
                THEN FixZip64(fixed, loc, ranges)
                ELSE FixCentralDirectory(fixed, U16(cd32_entries),
                                         Val(cd32_size), Val(cd32.sum), ranges)

SplitMagicKept(file) == file

\* The stream after write_all(b"\0\0\0\0") at its start.
SplitMagicWiped(file) == Put(file, 0, Zeros(4))

\* fix_offsets(file, disk_ranges): the result and the stream afterwards.
fix_offsets(file, ranges) ==
    IF ranges = << >> THEN Repaired("MissingDisk", file)
    ELSE IF Len(file) < 4 THEN Repaired("Io", file)
    ELSE IF Slice(file, 0, 4) = MAGIC_LOCAL THEN Repaired("Ok", file)
    ELSE IF Slice(file, 0, 4) # MAGIC_SPLIT
    THEN Repaired("InvalidSplitMagic", file)
    ELSE FixFromEocd(SplitMagicWiped(file), ranges)

\* Largest number of entries of a central directory and largest number of
\* calls of fix_offsets on one stream.
MaxEntries == 2
MaxRepairs == 2

\* The zip64 extended information extra field of an entry whose local header
\* is at lh_doffset of `disk`.
Zip64Extra(lh_doffset, disk) ==
    ToLE(ZIP64_EXTRA_ID, 2) \o ToLE(ZIP64_EXTRA_SIZE, 2) \o Zeros(16)
        \o ToLE(lh_doffset, 8) \o ToLE(disk, 4)

\* An extra field with another identifier and four bytes of data.
OtherExtra == ToLE(10, 2) \o ToLE(4, 2) \o << 1, 2, 3, 4 >>

\* A zip64 extended information extra field that holds the two sizes only,
\* as written for an entry whose sizes alone do not fit 32 bits.
Zip64Sizes == ToLE(ZIP64_EXTRA_ID, 2) \o ToLE(16, 2) \o Zeros(16)

\* An extra field with another identifier and eight bytes of data, the last
\* four of them `tail` as a little-endian number.
LongExtra(tail) == ToLE(10, 2) \o ToLE(8, 2) \o << 1, 2, 3, 4 >> \o ToLE(tail, 4)

\* A central directory entry with a name of one byte and no comment, whose
\* local header offset is the four bytes lh_doffset.
CdEntryAt(disk, lh_doffset, extra) ==
    MAGIC_CD \o Zeros(24) \o ToLE(1, 2) \o ToLE(Len(extra), 2) \o ToLE(0, 2)
        \o ToLE(disk, 2) \o Zeros(6) \o lh_doffset \o << 97 >> \o extra

\* A central directory entry with a name of one byte and no comment.
CdEntry(disk, lh_doffset, extra) == CdEntryAt(disk, ToLE(lh_doffset, 4), extra)

\* The kinds of entries of the streams that are repaired: the entry's local
\* header is on disk 0, on the last disk, on a disk that does not exist, or
\* is named by a zip64 extra field (after a field of another kind, or not),
\* is at the largest offset of the last disk, or is on disk 0 with a zip64
\* extra field of the sizes only (before a field of another kind, or not).
EntryKinds == {"first", "last", "missing", "zip64", "other+zip64", "far",
               "sizes", "sizes+other"}

\* The entry of kind `kind` of an archive of `disks` disks.
EntryOf(kind, disks) ==
    IF kind = "first" THEN CdEntry(0, 4, << >>)
    ELSE IF kind = "last" THEN CdEntry(disks - 1, 0, OtherExtra)
    ELSE IF kind = "missing" THEN CdEntry(disks, 0, << >>)
    ELSE IF kind = "zip64"
    THEN CdEntry(DISK_IN_ZIP64, 255, Zip64Extra(0, disks - 1))
    ELSE IF kind = "far"
    THEN CdEntryAt(disks - 1, << 255, 255, 255, 255 >>, << >>)
    ELSE IF kind = "sizes" THEN CdEntry(0, 4, Zip64Sizes)
    ELSE IF kind = "sizes+other"
    THEN CdEntry(0, 4, Zip64Sizes \o LongExtra(disks - 1))
    ELSE CdEntry(DISK_IN_ZIP64, 255, OtherExtra \o Zip64Extra(4, 0))

RECURSIVE Flatten(_)
Flatten(ss) == IF ss = << >> THEN << >> ELSE Head(ss) \o Flatten(Tail(ss))

\* The end of central directory record, with no comment; this disk is the
\* disk of the central directory.
Eocd(disk, entries, cd_size, cd_doffset) ==
    MAGIC_EOCD \o ToLE(disk, 2) \o ToLE(disk, 2) \o ToLE(entries, 2)
        \o ToLE(entries, 2) \o ToLE(cd_size, 4) \o ToLE(cd_doffset, 4)
        \o ToLE(0, 2)

\* The zip64 end of central directory record and its locator.
Eocd64(disk, entries, cd_size, cd_doffset) ==
    MAGIC_EOCD64 \o ToLE(44, 8) \o Zeros(4) \o ToLE(disk, 4) \o ToLE(disk, 4)
        \o ToLE(entries, 8) \o ToLE(entries, 8) \o ToLE(cd_size, 8)
        \o ToLE(cd_doffset, 8)
Eocd64Locator(disk, doffset, disks) ==
    MAGIC_EOCD64_LOCATOR \o ToLE(disk, 4) \o ToLE(doffset, 8) \o ToLE(disks, 4)

\* The offset of the central directory in the streams that are repaired:
\* after the magic and eight bytes of local header and data.
CdStart == 12
Filler == << 7, 7, 7, 7, 7, 7, 7, 7 >>

\* The starts of the last disk of the streams that are repaired: there is
\* one disk, or the second disk starts inside the data, or at the central
\* directory.
LastDiskStarts == {0, 8, CdStart}

\* A split archive as concatenated: `magic`, the data, the central directory
\* with the entries of `kinds`, the zip64 records when zip64, and the EOCD.
\* The last disk starts at `start`; the records name the central directory
\* at `skew` bytes after where it is.
Archive(magic, kinds, start, zip64, skew) ==
    LET disks == IF start = 0 THEN 1 ELSE 2
        cd == Flatten([k \in 1..Len(kinds) |-> EntryOf(kinds[k], disks)])
        cd_doffset == CdStart - start + skew
    IN  magic \o Filler \o cd
            \o (IF zip64
                THEN Eocd64(disks - 1, Len(kinds), Len(cd), cd_doffset)
                         \o Eocd64Locator(disks - 1, CdStart + Len(cd) - start,
                                          disks)
                ELSE << >>)
            \o Eocd(disks - 1, Len(kinds), Len(cd), cd_doffset)

\* The disk ranges of an archive of file_size bytes whose last disk starts at
\* `start` (JoinedFile::splits).
RangesOf(start, file_size) ==
    IF start = 0 THEN << [start |-> 0, end |-> file_size] >>
    ELSE << [start |-> 0, end |-> start], [start |-> start, end |-> file_size] >>

\* No stream is being repaired.
NoRepair ==
    /\ zip = << >>
    /\ disk_ranges = << >>
    /\ repairs = << >>

\* fix_offsets is called on the stream; a later call is made with the whole
\* stream as the one disk.
FixOffsets ==
    /\ Len(repairs) < MaxRepairs
    /\ LET fixed == fix_offsets(zip, disk_ranges)
       IN  /\ zip' = fixed.file
           /\ repairs' = Append(repairs, fixed.result)
    /\ disk_ranges' = << [start |-> 0, end |-> Len(zip)] >>
    /\ UNCHANGED outside_repair

(***************************************************************************)
(* client.rs: the names of the pieces of a split zip.  A name is a string;  *)
(* ZipNamingScheme::parse recognises the scheme from the two names and the  *)
(* count the server reports, ZipNamingScheme::name names piece `index`.     *)
(***************************************************************************)
\* Largest zip_file_cnt of the names that are parsed.
MaxCount == 3

Max(a, b) == IF a > b THEN a ELSE b

Digit(d) == SubSeq("0123456789", d + 1, d + 1)

\* u32::to_string
RECURSIVE to_string(_)
to_string(n) ==
    IF n < 10 THEN Digit(n) ELSE to_string(n \div 10) \o Digit(n % 10)

\* format!("{:0width$}"): at least `width` characters, padded with zeroes.
RECURSIVE PadZero(_, _)
PadZero(str, width) ==
    IF Len(str) >= width THEN str ELSE PadZero("0" \o str, width)

\* str::starts_with
starts_with(str, pat) ==
    Len(pat) <= Len(str) /\ SubSeq(str, 1, Len(pat)) = pat

\* str::ends_with
ends_with(str, pat) ==
    Len(pat) <= Len(str) /\ SubSeq(str, Len(str) - Len(pat) + 1, Len(str)) = pat

Nothing == [some |-> FALSE]
Some(v) == [some |-> TRUE, value |-> v]

\* str::strip_suffix
strip_suffix(str, pat) ==
    IF ends_with(str, pat)
    THEN Some(SubSeq(str, 1, Len(str) - Len(pat)))
    ELSE Nothing

\* str::rsplit_once: what is before and after the last occurrence of pat.
rsplit_once(str, pat) ==
    LET at == {k \in 1..(Len(str) - Len(pat) + 1) :
                  SubSeq(str, k, k + Len(pat) - 1) = pat}
    IN  IF at = {} THEN Nothing
        ELSE LET k == CHOOSE j \in at : \A o \in at : o <= j
             IN  Some([prefix |-> SubSeq(str, 1, k - 1),
                       suffix |-> SubSeq(str, k + Len(pat), Len(str))])

\* The variants of ZipNamingScheme, and Error::UnknownZipNaming.
NotZip == [scheme |-> "NotZip"]
NotSplit(name) == [scheme |-> "NotSplit", name |-> name]
Legacy(prefix, suffix, digits) ==
    [scheme |-> "Legacy", prefix |-> prefix, suffix |-> suffix,
     digits |-> digits]
Standard(base_name, count) ==
    [scheme |-> "Standard", base_name |-> base_name, count |-> count]
UnknownZipNaming == [scheme |-> "UnknownZipNaming"]

\* The extension of the second last piece in the modern scheme.
LastExtOfCount(count) == ".z" \o PadZero(to_string(count), 2)
last_ext(count) == ".z" \o PadZero(to_string(count - 1), 2)

\* The digits of a number of the legacy scheme: as many as the count has,
\* and three at least.
DigitsOfCount(count) == Len(to_string(count))
LegacyDigits(count) == Max(Len(to_string(count)), 3)

\* The legacy scheme, when `last` carries the padded count and `first` is
\* made of what is before and after it: the server reports as `first` the
\* name with the number left out (model.rs, File::zip_file_first_name).
ParseLegacy(first, last, count) ==
    LET digits == LegacyDigits(count)
        count_str == PadZero(to_string(count), digits)
        split == rsplit_once(last, count_str)
    IN  IF /\ split.some
           /\ Len(split.value.prefix) + Len(split.value.suffix) = Len(first)
           /\ starts_with(first, split.value.prefix)
           /\ ends_with(first, split.value.suffix)
        THEN Some(Legacy(split.value.prefix, split.value.suffix, digits))
        ELSE Nothing

\* The modern scheme, when `first` is <base>.zip and `last` is <base>.z<nn>.
ParseStandard(first, last, count) ==
    LET first_no_ext == strip_suffix(first, ".zip")
        last_no_ext == strip_suffix(last, last_ext(count))
    IN  IF first_no_ext.some /\ first_no_ext = last_no_ext
        THEN Some(Standard(first_no_ext.value, count))
        ELSE Nothing

\* ZipNamingScheme::parse
parse(first, last, count) ==
    IF count = 0 THEN NotZip
    ELSE IF count = 1
    THEN IF first = last THEN NotSplit(first) ELSE UnknownZipNaming
    ELSE IF ParseLegacy(first, last, count).some
    THEN ParseLegacy(first, last, count).value
    ELSE IF ParseStandard(first, last, count).some
    THEN ParseStandard(first, last, count).value
    ELSE UnknownZipNaming

\* ZipNamingScheme::name
name(self, index) ==
    CASE self.scheme = "NotZip" -> ""
      [] self.scheme = "NotSplit" -> self.name
      [] self.scheme = "Legacy" ->
            self.prefix \o PadZero(to_string(index + 1), self.digits)
                \o self.suffix
      [] self.scheme = "Standard" ->
            IF index = self.count - 1
            THEN self.base_name \o ".zip"
            ELSE self.base_name \o ".z" \o PadZero(to_string(index + 1), 2)

\* The names a server reports: of either scheme, numbered or not.
BaseNames == {"foo", "pkg", "v003"}
ServerNames ==
    UNION {{b \o ".zip", b \o ".bin"}
               \cup {b \o ".z" \o PadZero(to_string(k), 2) : k \in 1..MaxCount}
               \cup {b \o PadZero(to_string(k), 3) \o ".bin" : k \in 1..MaxCount}
           : b \in BaseNames}

Unparsed == [scheme |-> "Unparsed"]

NamingOf(first, last, count) ==
    [first |-> first, last |-> last, count |-> count,
     zip_naming |-> Unparsed, names |-> << >>]

\* No names are parsed and no File is converted.
NoManifest ==
    /\ naming = NamingOf("", "", 0)
    /\ file_info = << >>

\* ZipNamingScheme::parse is called on what the server reported.
Parse ==
    /\ naming.zip_naming = Unparsed
    /\ naming' = [naming EXCEPT
                    !.zip_naming = parse(naming.first, naming.last, naming.count)]
    /\ UNCHANGED << file_info, outside_manifest >>

\* The next piece is named (FileInfo::download_name, in the order of the
\* download indexes).
NameNext ==
    /\ naming.zip_naming \notin {Unparsed, UnknownZipNaming}
    /\ Len(naming.names) < naming.count
    /\ naming' = [naming EXCEPT
                    !.names = Append(@, name(naming.zip_naming, Len(@)))]
    /\ UNCHANGED << file_info, outside_manifest >>

(***************************************************************************)
(* client.rs: FileInfo::try_from.  The fields of a File are decimal         *)
(* strings.  An integer of the program is a sequence of 16-bit limbs, the   *)
(* least significant first; a signed integer is in two's complement.        *)
(***************************************************************************)
Limb == 65536

IsDigit(c) == \E d \in 0..9 : Digit(d) = c
DigitValue(c) == CHOOSE d \in 0..9 : Digit(d) = c

\* limbs * m + c, in as many limbs.
RECURSIVE MulAdd(_, _, _)
MulAdd(limbs, m, c) ==
    IF limbs = << >> THEN << >>
    ELSE LET v == Head(limbs) * m + c
         IN  << v % Limb >> \o MulAdd(Tail(limbs), m, v \div Limb)

\* The value of the decimal digits of text from position k on, after acc.
RECURSIVE Magnitude(_, _, _)
Magnitude(text, k, acc) ==
    IF k > Len(text) THEN acc
    ELSE Magnitude(text, k + 1,
                   MulAdd(acc, 10, DigitValue(SubSeq(text, k, k))))

\* -v of 64 bits.
Negate(v) == MulAdd([k \in 1..4 |-> Limb - 1 - v[k]], 1, 1)

\* a + b of 64 bits, wrapping.
RECURSIVE Add64(_, _, _)
Add64(a, b, c) ==
    IF a = << >> THEN << >>
    ELSE LET v == Head(a) + Head(b) + c
         IN  << v % Limb >> \o Add64(Tail(a), Tail(b), v \div Limb)

\* str::parse of an integer: an optional sign (none but + for an unsigned
\* type) and at least one digit, nothing else.  The magnitude has five limbs.
ParseInteger(text, signed) ==
    LET sign == IF Len(text) > 0 THEN SubSeq(text, 1, 1) ELSE ""
        neg == signed /\ sign = "-"
        from == IF sign = "+" \/ neg THEN 2 ELSE 1
    IN  IF from > Len(text)
           \/ \E k \in from..Len(text) : ~IsDigit(SubSeq(text, k, k))
           \/ Len(text) - from + 1 > 20
        THEN Nothing
        ELSE Some([neg |-> neg,
                   mag |-> Magnitude(text, from, << 0, 0, 0, 0, 0 >>)])

\* str::parse::<i64>
parse_i64(text) ==
    LET n == ParseInteger(text, TRUE)
    IN  IF ~n.some THEN Nothing
        ELSE LET mag == n.value.mag
                 low == SubSeq(mag, 1, 4)
             IN  IF n.value.neg
                 THEN IF mag[5] = 0 /\ (mag[4] < Limb \div 2
                                          \/ low = << 0, 0, 0, Limb \div 2 >>)
                      THEN Some(Negate(low)) ELSE Nothing
                 ELSE IF mag[5] = 0 /\ mag[4] < Limb \div 2
                      THEN Some(low) ELSE Nothing

\* str::parse::<i32>
parse_i32(text) ==
    LET n == ParseInteger(text, TRUE)
    IN  IF ~n.some THEN Nothing
        ELSE LET mag == n.value.mag
                 high == SubSeq(mag, 3, 5)
                 low == SubSeq(mag, 1, 2) \o << 0, 0 >>
             IN  IF n.value.neg
                 THEN IF high = << 0, 0, 0 >>
                         /\ (mag[2] < Limb \div 2 \/ low = << 0, Limb \div 2, 0, 0 >>)
                      THEN Some(SubSeq(Negate(low), 1, 2)) ELSE Nothing
                 ELSE IF high = << 0, 0, 0 >> /\ mag[2] < Limb \div 2
                      THEN Some(SubSeq(low, 1, 2)) ELSE Nothing

\* str::parse::<u32>.  The count is kept as a number: the counts of WireCounts
\* that are in range are below 2^31.
parse_u32(text) ==
    LET n == ParseInteger(text, FALSE)
    IN  IF ~n.some THEN Nothing
        ELSE IF SubSeq(n.value.mag, 3, 5) = << 0, 0, 0 >>
        THEN Some(n.value.mag[1] + Limb * n.value.mag[2])
        ELSE Nothing

IsNegative(v) == v[Len(v)] >= Limb \div 2

\* A size of the wire as the program keeps it: a negative one is cut to its
\* low 32 bits, which are read as unsigned (`as i32 as u32`, then into()).
SizeSignExtended(wire) == wire
SizeFromWire(wire) ==
    IF IsNegative(wire) THEN << wire[1], wire[2], 0, 0 >> ELSE wire

BadFieldValue(field) == [err |-> "BadFieldValue", field |-> field]

\* FileInfo::try_from
try_from(file) ==
    LET crc == parse_i32(file.file_crc)
        file_size == parse_i64(file.file_size)
        zip_count == parse_u32(file.zip_file_cnt)
        zip_size == parse_i64(file.zip_file_size)
    IN  IF ~crc.some THEN BadFieldValue("file_crc")
        ELSE IF ~file_size.some THEN BadFieldValue("file_size")
        ELSE IF ~zip_count.some THEN BadFieldValue("zip_file_cnt")
        ELSE IF ~zip_size.some THEN BadFieldValue("zip_file_size")
        ELSE LET zip_naming == parse(file.zip_file_first_name,
                                     file.zip_file_last_name, zip_count.value)
             IN  IF zip_naming = UnknownZipNaming
                 THEN [err |-> "UnknownZipNaming"]
                 ELSE [err |-> "",
                       crc32 |-> crc.value,
                       size |-> SizeFromWire(file_size.value),
                       zip_count |-> zip_count.value,
                       zip_size |-> SizeFromWire(zip_size.value),
                       zip_naming |-> zip_naming]

\* The sizes a server sends: small ones, the ends of the signed and unsigned
\* ranges of 32 and 64 bits, what is past them, and what is no number.
WireSizes ==
    {"0", "1", "+7", "2147483647", "2147483648", "4294967295", "4294967296",
     "9223372036854775807", "9223372036854775808",
     "-1", "-294967296", "-2147483648", "-2147483649",
     "-9223372036854775808", "-9223372036854775809", "", "-", "12a"}
WireCrcs == {"0", "-1", "-2147483648", "2147483647", "2147483648", "x"}
WireCounts == {"0", "1", "2", "-1", "65536", "4294967296"}
WireNames == {<< "", "" >>, << "a.zip", "a.zip" >>, << "a.zip", "a.z01" >>}

Unconverted == [err |-> "Unconverted"]

\* A File of the manifest is converted.
TryFrom ==
    /\ file_info # << >>
    /\ file_info.result = Unconverted
    /\ file_info' = [file_info EXCEPT !.result = try_from(file_info.file)]
    /\ UNCHANGED << naming, outside_manifest >>

(***************************************************************************)
(* The progress channel: Downloader::download and its tasks as senders,    *)
(* and the consumer of main.rs.  A task is what it sends: the number of    *)
(* chunks it has yet to transfer, each reported once it was written.       *)
(***************************************************************************)
Totals == {"TotalDownload", "TotalPostProcess"}
Deltas == {"Download", "PostProcess"}

InitialMessagesDeltasFirst ==
    << "Download", "PostProcess", "TotalDownload", "TotalPostProcess" >>

\* The messages that download() sends before its loop, in order.
InitialMessages ==
    << "TotalDownload", "TotalPostProcess", "Download", "PostProcess" >>

CapacityOfThree(c) == 3 * c

\* The capacity of the channel that Downloader::new creates.
Capacity(c) == 2 * c

\* Sender::send and Sender::blocking_send complete when the channel has room.
HasRoom == Len(progress_rx) < Capacity(reporting.concurrency)

RECURSIVE QueuedDownloads(_, _)
\* InitialState.dl_tasks as the files of the queued downloads, where file f
\* and the files after it have remain[f] downloads to make.
QueuedDownloads(remain, f) ==
    IF f > Len(FirmwareFiles) THEN << >>
    ELSE [k \in 1..remain[f] |-> f] \o QueuedDownloads(remain, f + 1)

\* The initial state of download() with the channel empty: remain[f]
\* downloads are queued for file f, and a file with none is queued for
\* post-processing unless it is one of `finished`, the unsplit files that
\* are in place.
ReportingNew(c, remain, finished) ==
    [concurrency |-> c,
     pc |-> "initial",
     sent |-> 0,
     dl_remain |-> remain,
     dl_tasks |-> QueuedDownloads(remain, 1),
     pp_tasks |-> SelectSeq([f \in Files |-> f],
                            LAMBDA f : remain[f] = 0 /\ f \notin finished),
     dl_running |-> 0,
     pp_running |-> 0,
     tasks |-> << >>,
     plan |-> remain,
     pp_plan |-> {f \in Files : remain[f] = 0 /\ f \notin finished},
     dl_ran |-> [f \in Files |-> 0],
     pp_ran |-> [f \in Files |-> 0]]

\* Progress reporting is not in use.
NoProgress ==
    /\ progress_rx = << >>
    /\ received = {}
    /\ reporting = [ReportingNew(1, [f \in Files |-> 0], {}) EXCEPT !.pc = "idle"]

\* The sequence s without its element k.
RemoveAt(s, k) == SubSeq(s, 1, k - 1) \o SubSeq(s, k + 1, Len(s))

\* download() is in its loop.
InLoop == reporting.pc = "loop"

\* The loop of download() can spawn a download task, or else a post-process
\* task.
CanSpawnDownload ==
    reporting.dl_running < reporting.concurrency /\ reporting.dl_tasks # << >>
CanSpawnPostProcess ==
    /\ ~CanSpawnDownload
    /\ reporting.pp_running < reporting.concurrency
    /\ reporting.pp_tasks # << >>

\* download() sends the next of its initial messages.
SendInitial ==
    /\ reporting.pc = "initial"
    /\ HasRoom
    /\ progress_rx' = Append(progress_rx, InitialMessages[reporting.sent + 1])
    /\ reporting' = [reporting EXCEPT
                        !.sent = @ + 1,
                        !.pc = IF reporting.sent + 1 = Len(InitialMessages)
                               THEN "loop" ELSE @]
    /\ UNCHANGED << received, outside_progress >>

\* The loop spawns the download task at the head of dl_tasks; the task has
\* some number of chunks to receive.
ReportSpawnDownload ==
    /\ InLoop
    /\ CanSpawnDownload
    /\ \E left \in 0..PieceLen :
          reporting' = [reporting EXCEPT
              !.dl_tasks = Tail(@),
              !.dl_running = @ + 1,
              !.dl_ran[Head(reporting.dl_tasks)] = @ + 1,
              !.tasks = Append(@, [kind |-> "Download",
                                   f |-> Head(reporting.dl_tasks),
                                   left |-> left, at |-> "io"])]
    /\ UNCHANGED << progress_rx, received, outside_progress >>

\* The loop spawns the post-process task at the head of pp_tasks; the task
\* has some number of chunks to read (none when it only cleans).
ReportSpawnPostProcess ==
    /\ InLoop
    /\ CanSpawnPostProcess
    /\ \E left \in 0..PieceLen :
          reporting' = [reporting EXCEPT
              !.pp_tasks = Tail(@),
              !.pp_running = @ + 1,
              !.pp_ran[Head(reporting.pp_tasks)] = @ + 1,
              !.tasks = Append(@, [kind |-> "PostProcess",
                                   f |-> Head(reporting.pp_tasks),
                                   left |-> left, at |-> "io"])]
    /\ UNCHANGED << progress_rx, received, outside_progress >>

\* Task k transfers a chunk: it is written to the file (or read from it and
\* checked) and is then to be reported.
TaskChunk(k) ==
    /\ k \in DOMAIN reporting.tasks
    /\ reporting.tasks[k].at = "io"
    /\ reporting.tasks[k].left > 0
    /\ reporting' = [reporting EXCEPT !.tasks[k].left = @ - 1,
                                      !.tasks[k].at = "send"]
    /\ UNCHANGED << progress_rx, received, outside_progress >>

\* Task k reports the chunk: the send completes when the channel has room.
TaskSend(k) ==
    /\ k \in DOMAIN reporting.tasks
    /\ reporting.tasks[k].at = "send"
    /\ HasRoom
    /\ progress_rx' = Append(progress_rx, reporting.tasks[k].kind)
    /\ reporting' = [reporting EXCEPT !.tasks[k].at = "io"]
    /\ UNCHANGED << received, outside_progress >>

\* Task k has nothing left to transfer and completes.
TaskComplete(k) ==
    /\ k \in DOMAIN reporting.tasks
    /\ reporting.tasks[k].at = "io"
    /\ reporting.tasks[k].left = 0
    /\ reporting' = [reporting EXCEPT !.tasks[k].at = "done"]
    /\ UNCHANGED << progress_rx, received, outside_progress >>

\* Task k fails at a request or at a chunk.
TaskFail(k) ==
    /\ k \in DOMAIN reporting.tasks
    /\ reporting.tasks[k].at = "io"
    /\ reporting' = [reporting EXCEPT !.tasks[k].at = "failed"]
    /\ UNCHANGED << progress_rx, received, outside_progress >>

NoDownloadIsLast(r, f) == FALSE

\* The download of file f that has been joined was the last one of f.
LastDownload(r, f) == r.dl_remain[f] = 1

\* join_next of the loop gives the result of task k, which has ended.
ReportJoin(k) ==
    /\ InLoop
    /\ ~CanSpawnDownload /\ ~CanSpawnPostProcess
    /\ k \in DOMAIN reporting.tasks
    /\ reporting.tasks[k].at \in {"done", "failed"}
    /\ LET t == reporting.tasks[k]
           counted == IF t.kind = "Download"
                      THEN [reporting EXCEPT !.dl_running = @ - 1]
                      ELSE [reporting EXCEPT !.pp_running = @ - 1]
       IN  reporting' =
               IF t.at = "failed"
               THEN [counted EXCEPT !.pc = "err", !.tasks = << >>]
               ELSE IF t.kind = "PostProcess"
               THEN [counted EXCEPT !.tasks = RemoveAt(@, k)]
               ELSE [counted EXCEPT
                        !.tasks = RemoveAt(@, k),
                        !.dl_remain[t.f] = @ - 1,
                        !.pp_tasks = IF LastDownload(reporting, t.f)
                                     THEN Append(@, t.f) ELSE @]
    /\ UNCHANGED << progress_rx, received, outside_progress >>

\* join_next of the loop finds no task: download() returns Ok.
ReportReturn ==
    /\ InLoop
    /\ ~CanSpawnDownload /\ ~CanSpawnPostProcess
    /\ reporting.tasks = << >>
    /\ reporting' = [reporting EXCEPT !.pc = "ok"]
    /\ UNCHANGED << progress_rx, received, outside_progress >>

\* The consumer receives the message at the head of the channel.
Recv ==
    /\ progress_rx # << >>
    /\ progress_rx' = Tail(progress_rx)
    /\ received' = received \cup {Head(progress_rx)}
    /\ UNCHANGED << reporting, outside_progress >>

\* The components that are exercised on their own are not in use.
NoComponents ==
    /\ jfiles = << >>
    /\ joined = JoinedNew
    /\ jread = NoRead
    /\ jseek = NoSeek
    /\ cow = MemoryCowNew(<< >>, 1)
    /\ panicked = FALSE
    /\ NoProgress
    /\ NoRepair
    /\ NoManifest

\* What the server of the firmware files answers to a request for download
\* i of file f from offset start: it honours the range and reports the length
\* of what it serves, or the request fails, or it answers with an error, or
\* it ignores the range.
ServerResponses(f, i, start) ==
    {Response(0, 0, -1), Response(500, 0, -1), Response(200, 0, -1)}
        \cup (IF start < Len(ServerContent(f, i))
              THEN {Response(PARTIAL_CONTENT, 0, -1)}
              ELSE {Response(RANGE_NOT_SATISFIABLE, 0, -1),
                    Response(RANGE_NOT_SATISFIABLE, 200, Len(ServerContent(f, i)))})

(***************************************************************************)
(* Construction and the start of a run.                                    *)
(***************************************************************************)
\* A checksum in the manifest that is not the one of f's payload.
WrongCrc(f) == (Crc32(Payload(f)) + 1) % 251

Init ==
    /\ fs = << >>
    /\ concurrency \in 1..MaxConcurrency
    /\ retries = MaxRetries
    /\ keep_raw \in BOOLEAN
    /\ \E bad \in SUBSET Files :
          crc32 = [f \in Files |-> IF f \in bad THEN WrongCrc(f) ELSE Crc32(Payload(f))]
    /\ pc = "start"
    /\ dl_remain = [f \in Files |-> 0]
    /\ dl_tasks = << >>
    /\ pp_tasks = << >>
    /\ dl_bytes = 0
    /\ pp_bytes = 0
    /\ dl_running = 0
    /\ pp_running = 0
    /\ tasks_dl = {}
    /\ tasks_pp = {}
    /\ spawned = << >>
    /\ client = NoCall
    /\ NoComponents

\* The command is run (again): main builds a Downloader and polls download().
\* The previous process has exited, which waits for its blocking tasks.
StartRun ==
    /\ pc \in {"start", "ok", "failed", "interrupted"}
    /\ \A t \in tasks_pp : t.phase = "done"
    /\ pc' = "version"
    /\ dl_remain' = [f \in Files |-> 0]
    /\ dl_tasks' = << >>
    /\ pp_tasks' = << >>
    /\ dl_bytes' = 0
    /\ pp_bytes' = 0
    /\ dl_running' = 0
    /\ pp_running' = 0
    /\ tasks_dl' = {}
    /\ tasks_pp' = {}
    /\ spawned' = << >>
    /\ UNCHANGED << fs, config, others >>

\* Downloader::version_file: one line per file with its checksum and size.
version_file == [f \in Files |-> << crc32[f], size(f) >>]

WriteVersionFileSkipped ==
    /\ pc = "version"
    /\ fs' = fs
    /\ pc' = "plan"
    /\ UNCHANGED << config, plan, dl_running, pp_running,
                    tasks_dl, tasks_pp, spawned, others >>

\* download(): write_version_file on the blocking pool.
WriteVersionFile ==
    /\ pc = "version"
    /\ fs' = WriteFile(fs, VersionPath, version_file)
    /\ pc' = "plan"
    /\ UNCHANGED << config, plan, dl_running, pp_running,
                    tasks_dl, tasks_pp, spawned, others >>

\* download(): write_version_file fails and `??` returns its error.  The file
\* is as it was when it could not be opened, or empty when it was opened and
\* the write failed.
WriteVersionFileFails ==
    /\ pc = "version"
    /\ fs' \in {fs, WriteFile(fs, VersionPath, << >>)}
    /\ pc' = "failed"
    /\ UNCHANGED << config, plan, dl_running, pp_running,
                    tasks_dl, tasks_pp, spawned, others >>

\* download(): compute_initial_state on the blocking pool.
ComputeInitialState ==
    /\ pc = "plan"
    /\ LET st == compute_initial_state(fs)
       IN  /\ dl_bytes' = st.dl_bytes
           /\ pp_bytes' = st.pp_bytes
           /\ dl_remain' = st.dl_remain
           /\ dl_tasks' = st.dl_tasks
           /\ pp_tasks' = st.pp_tasks
    /\ pc' = "seed"
    /\ fs' = PlannerDirectory(fs)
    /\ UNCHANGED << config, dl_running, pp_running,
                    tasks_dl, tasks_pp, spawned, others >>

\* download(): the four initial progress messages, then the loop is entered.
\* state.dl_bytes and state.pp_bytes are moved into the messages and are not
\* read again.
ReportInitialProgress ==
    /\ pc = "seed"
    /\ pc' = "loop"
    /\ dl_bytes' = 0
    /\ pp_bytes' = 0
    /\ UNCHANGED << fs, config, dl_remain, dl_tasks, pp_tasks, dl_running,
                    pp_running, tasks_dl, tasks_pp, spawned, others >>

(***************************************************************************)
(* The pipeline loop of download().                                        *)
(***************************************************************************)
\* A download task as spawned: download_task(file_index, download_index, start).
NewDownloadTask(params) ==
    [f |-> params.file_index, i |-> params.download_index,
     pos |-> params.start_offset, attempt |-> 0, phase |-> "open",
     result |-> "none"]

\* A post-process task as spawned, with the cancel flag of its CancelOnDrop.
NewPostProcessTask(params) ==
    [f |-> params.file_index, clean_only |-> params.clean_only,
     phase |-> "start", n |-> 0, hash |-> 0, cancel |-> FALSE,
     result |-> "none"]

MaySpawnDownloadOffByOne == dl_running <= concurrency /\ dl_tasks # << >>

\* The guard of the first inner loop: while dl_running < self.concurrency.
MaySpawnDownload == dl_running < concurrency /\ dl_tasks # << >>

\* The guard of the second inner loop: while pp_running < self.concurrency.
MaySpawnPostProcess == pp_running < concurrency /\ pp_tasks # << >>

FrontKept(queue) == queue

\* VecDeque::pop_front: what is left of the queue.
PopFront(queue) == Tail(queue)

\* One iteration of the first inner loop: pop_front and spawn.
SpawnDownload ==
    /\ pc = "loop"
    /\ MaySpawnDownload
    /\ dl_tasks' = PopFront(dl_tasks)
    /\ dl_running' = dl_running + 1
    /\ tasks_dl' = tasks_dl \cup {NewDownloadTask(Head(dl_tasks))}
    /\ spawned' = Append(spawned, << Head(dl_tasks).file_index,
                                     Head(dl_tasks).download_index >>)
    /\ UNCHANGED << fs, config, pc, dl_remain, pp_tasks, dl_bytes,
                    pp_bytes, pp_running, tasks_pp, others >>

\* One iteration of the second inner loop, entered when the first has ended.
SpawnPostProcess ==
    /\ pc = "loop"
    /\ ~MaySpawnDownload
    /\ MaySpawnPostProcess
    /\ pp_tasks' = PopFront(pp_tasks)
    /\ pp_running' = pp_running + 1
    /\ tasks_pp' = tasks_pp \cup {NewPostProcessTask(Head(pp_tasks))}
    /\ UNCHANGED << fs, config, pc, dl_remain, dl_tasks, dl_bytes,
                    pp_bytes, dl_running, tasks_dl, spawned, others >>

JoinBeforeSpawn == pc = "loop"

\* tasks.join_next() is reached when both inner loops have ended.
AtJoinNext == pc = "loop" /\ ~MaySpawnDownload /\ ~MaySpawnPostProcess

\* join_next() returns None: all tasks exited, download() returns Ok.
JoinNone ==
    /\ AtJoinNext
    /\ tasks_dl = {}
    /\ tasks_pp = {}
    /\ pc' = "ok"
    /\ UNCHANGED << fs, config, plan, dl_running, pp_running,
                    tasks_dl, tasks_pp, spawned, others >>

QueueAfterAnyDownload(queue, remain, f) ==
    Append(queue, PostProcessParams(f, FALSE))

\* The post-process queue after a download of file f has completed: the task
\* is queued when nothing is left to download for f.
QueueAfterDownload(queue, remain, f) ==
    IF remain[f] = 0
    THEN Append(queue, PostProcessParams(f, FALSE))
    ELSE queue

\* The download() future is left or dropped: its state and counters are
\* gone, and dropping the JoinSet aborts the download tasks at their await.
FutureDropped ==
    /\ dl_remain' = [f \in Files |-> 0]
    /\ dl_tasks' = << >>
    /\ pp_tasks' = << >>
    /\ dl_bytes' = 0
    /\ pp_bytes' = 0
    /\ dl_running' = 0
    /\ pp_running' = 0
    /\ tasks_dl' = {}

JoinDownloadIgnoringError(t) ==
    /\ AtJoinNext
    /\ t \in tasks_dl
    /\ t.phase = "done"
    /\ pc' = pc
    /\ dl_running' = dl_running - 1
    /\ tasks_dl' = tasks_dl \ {t}
    /\ dl_remain' = [dl_remain EXCEPT ![t.f] = @ - 1]
    /\ pp_tasks' = QueueAfterDownload(pp_tasks, dl_remain', t.f)
    /\ UNCHANGED << dl_tasks, dl_bytes, pp_bytes, pp_running >>
    /\ UNCHANGED << fs, config, tasks_pp, spawned, others >>

\* join_next() returns the result of a download task.  An error leaves
\* download().
JoinDownload(t) ==
    /\ AtJoinNext
    /\ t \in tasks_dl
    /\ t.phase = "done"
    /\ IF t.result = "err"
       THEN /\ pc' = "failed"
            /\ FutureDropped
       ELSE /\ pc' = pc
            /\ dl_running' = dl_running - 1
            /\ tasks_dl' = tasks_dl \ {t}
            /\ dl_remain' = [dl_remain EXCEPT ![t.f] = @ - 1]
            /\ pp_tasks' = QueueAfterDownload(pp_tasks, dl_remain', t.f)
            /\ UNCHANGED << dl_tasks, dl_bytes, pp_bytes, pp_running >>
    /\ UNCHANGED << fs, config, tasks_pp, spawned, others >>

\* join_next() returns the result of a post-process task.
JoinPostProcess(t) ==
    /\ AtJoinNext
    /\ t \in tasks_pp
    /\ t.phase = "done"
    /\ tasks_pp' = tasks_pp \ {t}
    /\ IF t.result = "err"
       THEN /\ pc' = "failed"
            /\ FutureDropped
       ELSE /\ pc' = pc
            /\ pp_running' = pp_running - 1
            /\ UNCHANGED << dl_remain, dl_tasks, pp_tasks, dl_bytes,
                            pp_bytes, dl_running, tasks_dl >>
    /\ UNCHANGED << fs, config, spawned, others >>

\* main: ctrl-c wins the select, the download() future is dropped.
\* Post-process tasks run on the blocking pool until they see their cancel
\* flag.
Interrupt ==
    /\ pc \in {"plan", "seed", "loop"}
    /\ pc' = "interrupted"
    /\ FutureDropped
    /\ UNCHANGED << fs, config, tasks_pp, spawned, others >>

(***************************************************************************)
(* A download task: download_raw and download_raw_to_file.                 *)
(***************************************************************************)
\* The contents c after a write of byte b at file position pos.
WriteAt(c, pos, b) ==
    [k \in 1..(IF Len(c) > pos + 1 THEN Len(c) ELSE pos + 1) |->
        IF k = pos + 1 THEN b ELSE IF k <= Len(c) THEN c[k] ELSE 0]

\* The contents of path p, empty when it does not exist.
ContentsOf(d, p) == IF p \in DOMAIN d THEN d[p] ELSE << >>

OpenTruncated(d, p) == << >>

\* The temp file as opened with create(true).read(true).write(true): what it
\* holds is kept.
OpenCreated(d, p) == ContentsOf(d, p)

\* download_raw: create the directory, open the temp file (creating it).
\* The seek to `start` is the task's pos.
DownloadOpen(t) ==
    /\ t \in tasks_dl
    /\ t.phase = "open"
    /\ fs' = WriteFile(CreateDirAll(fs, t.f), DownloadPath(t.f, t.i),
                       OpenCreated(fs, DownloadPath(t.f, t.i)))
    /\ tasks_dl' = (tasks_dl \ {t}) \cup {[t EXCEPT !.phase = "request"]}
    /\ UNCHANGED << config, pc, plan, dl_running, pp_running,
                    tasks_pp, spawned, others >>

\* The match on the result of an attempt in download_raw: the last attempt's
\* error is the task's error, an earlier one is retried after the delay.
AttemptFailedAtOnce(t) == [t EXCEPT !.phase = "done", !.result = "err"]
AttemptFailed(t) ==
    IF t.attempt = retries
    THEN [t EXCEPT !.phase = "done", !.result = "err"]
    ELSE [t EXCEPT !.attempt = @ + 1, !.phase = "request"]

\* The path the finished temp file is renamed to.
RenamePath(f, i) == IF is_split(f) THEN download_name(f, i) ELSE VerifyPath(f)

\* The end of download_raw after a successful attempt: rename the temp file.
DownloadFinish(t) ==
    IF DownloadPath(t.f, t.i) \in DOMAIN fs
    THEN /\ fs' = Rename(fs, DownloadPath(t.f, t.i), RenamePath(t.f, t.i))
         /\ tasks_dl' = (tasks_dl \ {t}) \cup
                            {[t EXCEPT !.phase = "done", !.result = "ok"]}
    ELSE /\ fs' = fs
         /\ tasks_dl' = (tasks_dl \ {t}) \cup
                            {[t EXCEPT !.phase = "done", !.result = "err"]}

\* download_raw_to_file: the match on the result of client.download() with
\* `Range: bytes=<pos>-`.  AlreadyComplete ends the attempt successfully, the
\* stream is read next, any other error fails the attempt.
Requested(t, result) ==
    IF result = "AlreadyComplete" THEN DownloadFinish(t)
    ELSE IF result = "Stream"
    THEN /\ tasks_dl' = (tasks_dl \ {t}) \cup {[t EXCEPT !.phase = "stream"]}
         /\ fs' = fs
    ELSE /\ tasks_dl' = (tasks_dl \ {t}) \cup {AttemptFailed(t)}
         /\ fs' = fs

\* A download task calls client.download() and gets the server's answer.
DownloadRequest(t) ==
    /\ t \in tasks_dl
    /\ t.phase = "request"
    /\ \E resp \in ServerResponses(t.f, t.i, t.pos) :
          Requested(t, download(resp, t.pos))
    /\ UNCHANGED << config, pc, plan, dl_running, pp_running,
                    tasks_pp, spawned, others >>

\* The same call, against a server that answers anything; the call is
\* recorded.
ClientRequest(t) ==
    /\ t \in tasks_dl
    /\ t.phase = "request"
    /\ \E resp \in Responses :
          /\ client' = [resp |-> resp, result |-> download(resp, t.pos),
                        start |-> t.pos, calls |-> client.calls + 1]
          /\ Requested(t, client'.result)
    /\ UNCHANGED << config, pc, plan, dl_running, pp_running,
                    tasks_pp, spawned, components >>

\* stream.next(): a chunk (one byte) is written at the file position, or the
\* stream fails, or it ends and the file is synced and renamed.
DownloadChunk(t) ==
    /\ t \in tasks_dl
    /\ t.phase = "stream"
    /\ \/ /\ tasks_dl' = (tasks_dl \ {t}) \cup {AttemptFailed(t)}
          /\ fs' = fs
       \/ /\ t.pos < Len(ServerContent(t.f, t.i))
          /\ fs' = WriteFile(fs, DownloadPath(t.f, t.i),
                             WriteAt(ContentsOf(fs, DownloadPath(t.f, t.i)), t.pos,
                                     ServerContent(t.f, t.i)[t.pos + 1]))
          /\ tasks_dl' = (tasks_dl \ {t}) \cup {[t EXCEPT !.pos = @ + 1]}
       \/ /\ t.pos >= Len(ServerContent(t.f, t.i))
          /\ DownloadFinish(t)
    /\ UNCHANGED << config, pc, plan, dl_running, pp_running,
                    tasks_pp, spawned, others >>

(***************************************************************************)
(* A post-process task: post_process, verify, extract, clean.              *)
(***************************************************************************)
PostProcessDone(t, result) == [t EXCEPT !.phase = "done", !.result = result]

SetPostProcess(t, u) == tasks_pp' = (tasks_pp \ {t}) \cup {u}

\* Whether every split of f can be opened by JoinedFile.
SplitsExist(d, f) == \A i \in 0..(download_count(f) - 1) : download_name(f, i) \in DOMAIN d

RECURSIVE Joined(_, _, _)
\* The joined view of the splits 0..n-1 of f as they are on disk.
Joined(d, f, n) ==
    IF n = 0 THEN << >>
    ELSE Joined(d, f, n - 1) \o ContentsOf(d, download_name(f, n - 1))

\* The checksum of the entry recorded in the archive's central directory.
EntryCrc32(f) == Crc32(Payload(f))

\* The blocking closure of post_process starts: open the directory, then
\*  - verify: open the .verify file;
\*  - extract: join the splits, compare the joined size, repair the offsets,
\*    check_cancel, open the archive, compare the entry's recorded checksum,
\*    create the .extract file;
\*  - clean_only: go to clean.
PostProcessStart(t) ==
    /\ t \in tasks_pp
    /\ t.phase = "start"
    /\ IF ~DirOpens(fs, t.f)
       THEN SetPostProcess(t, PostProcessDone(t, "err")) /\ fs' = fs
       ELSE IF ~is_split(t.f)
       THEN /\ SetPostProcess(t, IF VerifyPath(t.f) \in DOMAIN fs
                                 THEN [t EXCEPT !.phase = "verify"]
                                 ELSE PostProcessDone(t, "err"))
            /\ fs' = fs
       ELSE IF t.clean_only
       THEN SetPostProcess(t, [t EXCEPT !.phase = "clean"]) /\ fs' = fs
       ELSE IF \/ ~SplitsExist(fs, t.f)
               \/ Len(Joined(fs, t.f, download_count(t.f))) # download_size(t.f)
               \/ t.cancel
               \/ EntryCrc32(t.f) # crc32[t.f]
       THEN SetPostProcess(t, PostProcessDone(t, "err")) /\ fs' = fs
       ELSE /\ SetPostProcess(t, [t EXCEPT !.phase = "extract"])
            /\ fs' = WriteFile(fs, ExtractPath(t.f), << >>)
    /\ UNCHANGED << config, pc, plan, dl_running, pp_running,
                    tasks_dl, spawned, others >>

\* check_cancel on the flag of the task's CancelOnDrop: whether it returns
\* the Interrupted error.
CancelIgnored(t) == FALSE
check_cancel(t) == t.cancel

DigestIgnored(digest, f) == TRUE

\* verify: the comparison of the digest with file_info.crc32.
DigestMatches(digest, f) == digest = crc32[f]

\* One iteration of the loop of verify: check_cancel, read a chunk (one byte)
\* and hash it; at the end of the file compare the digest and rename.
VerifyStep(t) ==
    /\ t \in tasks_pp
    /\ t.phase = "verify"
    /\ LET data == ContentsOf(fs, VerifyPath(t.f))
       IN  IF check_cancel(t)
           THEN SetPostProcess(t, PostProcessDone(t, "err")) /\ fs' = fs
           ELSE IF t.n < Len(data)
           THEN /\ SetPostProcess(t, [t EXCEPT !.n = @ + 1,
                                               !.hash = CrcUpdate(@, data[t.n + 1])])
                /\ fs' = fs
           ELSE IF ~DigestMatches(t.hash, t.f) \/ VerifyPath(t.f) \notin DOMAIN fs
           THEN SetPostProcess(t, PostProcessDone(t, "err")) /\ fs' = fs
           ELSE /\ SetPostProcess(t, PostProcessDone(t, "ok"))
                /\ fs' = Rename(fs, VerifyPath(t.f), FinalPath(t.f))
    /\ UNCHANGED << config, pc, plan, dl_running, pp_running,
                    tasks_dl, spawned, others >>

\* One iteration of the loop of extract: check_cancel, read a chunk (one byte)
\* of the entry and write it; at the end of the entry the zip reader compares
\* the checksum of what it read, then check_cancel, sync and rename.
ExtractStep(t) ==
    /\ t \in tasks_pp
    /\ t.phase = "extract"
    /\ LET entry == ZipEntry(Joined(fs, t.f, download_count(t.f)))
       IN  IF check_cancel(t)
           THEN SetPostProcess(t, PostProcessDone(t, "err")) /\ fs' = fs
           ELSE IF t.n < Len(entry)
           THEN /\ SetPostProcess(t, [t EXCEPT !.n = @ + 1,
                                               !.hash = CrcUpdate(@, entry[t.n + 1])])
                /\ fs' = WriteFile(fs, ExtractPath(t.f),
                                   WriteAt(ContentsOf(fs, ExtractPath(t.f)), t.n,
                                           entry[t.n + 1]))
           ELSE IF t.hash # EntryCrc32(t.f) \/ ExtractPath(t.f) \notin DOMAIN fs
           THEN SetPostProcess(t, PostProcessDone(t, "err")) /\ fs' = fs
           ELSE /\ SetPostProcess(t, [t EXCEPT !.phase = "clean", !.n = 0])
                /\ fs' = Rename(fs, ExtractPath(t.f), FinalPath(t.f))
    /\ UNCHANGED << config, pc, plan, dl_running, pp_running,
                    tasks_dl, spawned, others >>

\* clean: nothing with keep_raw; else per split check_cancel and
\* delete_if_exists.
CleanStep(t) ==
    /\ t \in tasks_pp
    /\ t.phase = "clean"
    /\ IF keep_raw \/ t.n >= download_count(t.f)
       THEN SetPostProcess(t, PostProcessDone(t, "ok")) /\ fs' = fs
       ELSE IF check_cancel(t)
       THEN SetPostProcess(t, PostProcessDone(t, "err")) /\ fs' = fs
       ELSE /\ SetPostProcess(t, [t EXCEPT !.n = @ + 1])
            /\ fs' = RemoveFile(fs, download_name(t.f, t.n))
    /\ UNCHANGED << config, pc, plan, dl_running, pp_running,
                    tasks_dl, spawned, others >>

\* The post_process future of a task is dropped after download() was left:
\* its CancelOnDrop sets the flag.
CancelPostProcess(t) ==
    /\ pc \in {"failed", "interrupted"}
    /\ t \in tasks_pp
    /\ t.phase # "done"
    /\ ~t.cancel
    /\ SetPostProcess(t, [t EXCEPT !.cancel = TRUE])
    /\ UNCHANGED << fs, config, pc, plan, dl_running, pp_running,
                    tasks_dl, spawned, others >>

(***************************************************************************)
(* The specification.                                                      *)
(***************************************************************************)
Next ==
    \/ StartRun
    \/ WriteVersionFile
    \/ WriteVersionFileFails
    \/ ComputeInitialState
    \/ ReportInitialProgress
    \/ SpawnDownload
    \/ SpawnPostProcess
    \/ JoinNone
    \/ \E t \in tasks_dl : JoinDownload(t)
    \/ \E t \in tasks_pp : JoinPostProcess(t)
    \/ Interrupt
    \/ \E t \in tasks_dl : DownloadOpen(t)
    \/ \E t \in tasks_dl : DownloadRequest(t)
    \/ \E t \in tasks_dl : DownloadChunk(t)
    \/ \E t \in tasks_pp : PostProcessStart(t)
    \/ \E t \in tasks_pp : VerifyStep(t)
    \/ \E t \in tasks_pp : ExtractStep(t)
    \/ \E t \in tasks_pp : CleanStep(t)
    \/ \E t \in tasks_pp : CancelPostProcess(t)

Spec == Init /\ [][Next]_vars

(***************************************************************************)
(* One download task against a server that may answer anything.            *)
(***************************************************************************)
\* A download task was spawned for download i of file f, whose temp file
\* holds the first `start` bytes.
InitClient ==
    /\ concurrency = 1
    /\ retries = MaxRetries
    /\ keep_raw = FALSE
    /\ crc32 = [f \in Files |-> Crc32(Payload(f))]
    /\ pc = "loop"
    /\ dl_tasks = << >>
    /\ pp_tasks = << >>
    /\ dl_bytes = 0
    /\ pp_bytes = 0
    /\ dl_running = 1
    /\ pp_running = 0
    /\ tasks_pp = {}
    /\ client = NoCall
    /\ NoComponents
    /\ \E f \in Files :
         \E i \in 0..(download_count(f) - 1) :
           \E start \in 0..Len(ServerContent(f, i)) :
              /\ fs = IF start = 0 THEN << >>
                      ELSE WriteFile(CreateDirAll(<< >>, f), DownloadPath(f, i),
                                     SubSeq(ServerContent(f, i), 1, start))
              /\ dl_remain = [g \in Files |-> IF g = f THEN 1 ELSE 0]
              /\ tasks_dl = {NewDownloadTask(DownloadParams(f, i, start))}
              /\ spawned = << << f, i >> >>

NextClient ==
    \/ \E t \in tasks_dl : DownloadOpen(t)
    \/ \E t \in tasks_dl : ClientRequest(t)
    \/ \E t \in tasks_dl : DownloadChunk(t)

SpecClient == InitClient /\ [][NextClient]_vars

(***************************************************************************)
(* The components on their own.                                            *)
(***************************************************************************)
\* No Downloader is at work.
PipelineIdle ==
    /\ fs = << >>
    /\ concurrency = 1
    /\ retries = 0
    /\ keep_raw = FALSE
    /\ crc32 = [f \in Files |-> Crc32(Payload(f))]
    /\ pc = "start"
    /\ dl_remain = [f \in Files |-> 0]
    /\ dl_tasks = << >>
    /\ pp_tasks = << >>
    /\ dl_bytes = 0
    /\ pp_bytes = 0
    /\ dl_running = 0
    /\ pp_running = 0
    /\ tasks_dl = {}
    /\ tasks_pp = {}
    /\ spawned = << >>
    /\ client = NoCall

\* The files to join: any number of files of any sizes, with bytes that tell
\* the file and the position.
InitJoined ==
    /\ PipelineIdle
    /\ \E n \in 0..MaxFiles :
         \E sizes \in [1..n -> 0..MaxFileLen] :
            jfiles = [k \in 1..n |-> [b \in 1..sizes[k] |-> 10 * k + b]]
    /\ joined = JoinedNew
    /\ jread = NoRead
    /\ jseek = NoSeek
    /\ cow = MemoryCowNew(<< >>, 1)
    /\ panicked = FALSE
    /\ NoProgress
    /\ NoRepair
    /\ NoManifest

NextJoined ==
    \/ AddFile
    \/ ReadJoined

\* A JoinedFile is built from its files and read from offset 0 to its end.
SpecJoined == InitJoined /\ [][NextJoined]_vars

NextSeek ==
    \/ AddFile
    \/ SeekJoined
    \/ ReadSought

\* A JoinedFile is built from its files, then sought and read at will.
SpecSeek == InitJoined /\ [][NextSeek]_vars

\* The overlay is built over a reader of any size, with any block size.
InitCow ==
    /\ PipelineIdle
    /\ jfiles = << >>
    /\ joined = JoinedNew
    /\ jread = NoRead
    /\ jseek = NoSeek
    /\ \E n \in 0..MaxReader, block_size \in 1..MaxBlock :
          cow = MemoryCowNew([k \in 1..n |-> k], block_size)
    /\ panicked = FALSE
    /\ NoProgress
    /\ NoRepair
    /\ NoManifest

NextCow ==
    \/ CowSeek
    \/ CowRead
    \/ CowWrite

\* A MemoryCowFile is built over a reader and then sought, read and written.
SpecCow == InitCow /\ [][NextCow]_vars

\* download() runs with any concurrency and any downloads left to make,
\* and the consumer receives at any pace.
InitProgress ==
    /\ PipelineIdle
    /\ jfiles = << >>
    /\ joined = JoinedNew
    /\ jread = NoRead
    /\ jseek = NoSeek
    /\ cow = MemoryCowNew(<< >>, 1)
    /\ panicked = FALSE
    /\ NoRepair
    /\ NoManifest
    /\ progress_rx = << >>
    /\ received = {}
    /\ \E c \in 1..MaxConcurrency :
          \E remain \in [Files -> 0..MaxConcurrency] :
             \E finished \in SUBSET {f \in Files :
                                        ~is_split(f) /\ remain[f] = 0} :
                reporting = ReportingNew(c, [f \in Files |->
                                                Min(remain[f], download_count(f))],
                                         finished)

NextProgress ==
    \/ SendInitial
    \/ ReportSpawnDownload
    \/ ReportSpawnPostProcess
    \/ \E k \in DOMAIN reporting.tasks : TaskChunk(k)
    \/ \E k \in DOMAIN reporting.tasks : TaskSend(k)
    \/ \E k \in DOMAIN reporting.tasks : TaskComplete(k)
    \/ \E k \in DOMAIN reporting.tasks : TaskFail(k)
    \/ \E k \in DOMAIN reporting.tasks : ReportJoin(k)
    \/ ReportReturn
    \/ Recv

\* The senders and the consumer of the progress channel.
SpecProgress == InitProgress /\ [][NextProgress]_vars

\* The steps of download() itself, of its tasks when none of them fails, and
\* of the consumer.
LoopStep ==
    \/ SendInitial
    \/ ReportSpawnDownload
    \/ ReportSpawnPostProcess
    \/ \E k \in DOMAIN reporting.tasks : ReportJoin(k)
    \/ ReportReturn
TaskStep ==
    \/ \E k \in DOMAIN reporting.tasks : TaskChunk(k)
    \/ \E k \in DOMAIN reporting.tasks : TaskSend(k)
    \/ \E k \in DOMAIN reporting.tasks : TaskComplete(k)

NextLive ==
    \/ LoopStep
    \/ TaskStep
    \/ Recv

\* A run in which every task succeeds: the runtime keeps polling download()
\* and its tasks while they can run, and the consumer keeps receiving.
SpecLive ==
    /\ InitProgress /\ [][NextLive]_vars
    /\ WF_vars(LoopStep) /\ WF_vars(TaskStep) /\ WF_vars(Recv)

\* The streams that are repaired: archives that begin with the split magic,
\* with the local header magic, with zeroes or with another magic, of any
\* entries, split at any of the places, with and without zip64 records, that
\* name the central directory where it is or elsewhere.
InitRepair ==
    /\ PipelineIdle
    /\ jfiles = << >>
    /\ joined = JoinedNew
    /\ jread = NoRead
    /\ jseek = NoSeek
    /\ cow = MemoryCowNew(<< >>, 1)
    /\ panicked = FALSE
    /\ NoProgress
    /\ \E magic \in {MAGIC_SPLIT, MAGIC_LOCAL, MAGIC_CD, Zeros(4)},
          n \in 0..MaxEntries, start \in LastDiskStarts,
          zip64 \in BOOLEAN, skew \in {0, 1} :
          \E kinds \in [1..n -> EntryKinds] :
             /\ zip = Archive(magic, kinds, start, zip64, skew)
             /\ disk_ranges = RangesOf(start, Len(zip))
    /\ repairs = << >>
    /\ NoManifest

NextRepair == FixOffsets

\* A stream is repaired, and repaired again as one disk.
SpecRepair == InitRepair /\ [][NextRepair]_vars

\* The names that are parsed: any two of the names, with any count.
InitNaming ==
    /\ PipelineIdle
    /\ jfiles = << >>
    /\ joined = JoinedNew
    /\ jread = NoRead
    /\ jseek = NoSeek
    /\ cow = MemoryCowNew(<< >>, 1)
    /\ panicked = FALSE
    /\ NoProgress
    /\ NoRepair
    /\ \E first \in ServerNames, last \in ServerNames, count \in 0..MaxCount :
          naming = NamingOf(first, last, count)
    /\ file_info = << >>

NextNaming == Parse \/ NameNext

\* The names of a file are parsed, and its pieces are named.
SpecNaming == InitNaming /\ [][NextNaming]_vars

\* The Files that are converted: of any sizes, checksums, counts and names.
InitFileInfo ==
    /\ PipelineIdle
    /\ jfiles = << >>
    /\ joined = JoinedNew
    /\ jread = NoRead
    /\ jseek = NoSeek
    /\ cow = MemoryCowNew(<< >>, 1)
    /\ panicked = FALSE
    /\ NoProgress
    /\ NoRepair
    /\ naming = NamingOf("", "", 0)
    /\ \E crc \in WireCrcs, fsize \in WireSizes, cnt \in WireCounts,
          zsize \in WireSizes, names \in WireNames :
          file_info = [file |-> [file_crc |-> crc,
                                 file_size |-> fsize,
                                 zip_file_cnt |-> cnt,
                                 zip_file_size |-> zsize,
                                 zip_file_first_name |-> names[1],
                                 zip_file_last_name |-> names[2]],
                       result |-> Unconverted]

NextFileInfo == TryFrom

\* A File of the manifest is converted to a FileInfo.
SpecFileInfo == InitFileInfo /\ [][NextFileInfo]_vars

\* The files that may be in the output directory when the command is run.
PlannerPaths ==
    UNION {{FinalPath(f)}
               \cup (IF FirmwareFiles[f].directory THEN {DirPath(f)} ELSE {})
               \cup (IF is_split(f) THEN {} ELSE {VerifyPath(f)})
               \cup {DownloadPath(f, i) : i \in 0..(download_count(f) - 1)}
               \cup {download_name(f, i) : i \in 0..(download_count(f) - 1)}
           : f \in Files}

\* The files of any size: what is being downloaded, and what is not verified.
OfAnySize(paths) == {p \in paths : p.kind \in {"download", "verify"}}

\* The directory with the files of `present`; sizes gives the sizes of the
\* files of any size.
DirectoryWith(present, sizes) ==
    [p \in present |->
        CASE p.kind = "dir" -> << >>
          [] p.kind = "final" -> Payload(p.f)
          [] p.kind = "piece" -> ServerContent(p.f, p.i)
          [] OTHER -> SubSeq(ServerContent(p.f, p.i), 1, sizes[p])]

\* The command is run on an output directory with any of the files, complete
\* or not; the files of a file with a directory are in that directory.
InitPlanner ==
    /\ \E present \in SUBSET PlannerPaths :
          /\ \A p \in present :
                (p.kind # "dir" /\ FirmwareFiles[p.f].directory)
                    => DirPath(p.f) \in present
          /\ \E sizes \in [OfAnySize(present) -> 0..PieceLen] :
                fs = DirectoryWith(present, sizes)
    /\ concurrency = 1
    /\ retries = MaxRetries
    /\ keep_raw = FALSE
    /\ crc32 = [f \in Files |-> Crc32(Payload(f))]
    /\ pc = "plan"
    /\ dl_remain = [f \in Files |-> 0]
    /\ dl_tasks = << >>
    /\ pp_tasks = << >>
    /\ dl_bytes = 0
    /\ pp_bytes = 0
    /\ dl_running = 0
    /\ pp_running = 0
    /\ tasks_dl = {}
    /\ tasks_pp = {}
    /\ spawned = << >>
    /\ client = NoCall
    /\ NoComponents

NextPlanner == ComputeInitialState

\* compute_initial_state on any output directory.
SpecPlanner == InitPlanner /\ [][NextPlanner]_vars

(***************************************************************************)
(* Properties.                                                             *)
(***************************************************************************)
Downloads(f) == 0..(download_count(f) - 1)

\* The download queue's entries for file f.
QueuedFor(queue, f) == {k \in 1..Len(queue) : queue[k].file_index = f}

\* The download a task is for.
Target(params) == << params.file_index, params.download_index >>

\* C1: at any time at most `concurrency` download tasks and at most
\* `concurrency` post-process tasks are in flight (spawned and not yet joined),
\* and the two counters of the loop stay within the same bound.
C1_ConcurrencyBound ==
    /\ Cardinality(tasks_dl) <= concurrency
    /\ Cardinality(tasks_pp) <= concurrency
    /\ dl_running <= concurrency
    /\ pp_running <= concurrency

\* A download waits in the queue because `concurrency` downloads are in
\* flight, while `concurrency` post-processes are in flight too.
C1_Witness ==
    /\ pc = "loop"
    /\ dl_tasks # << >>
    /\ Cardinality(tasks_dl) = concurrency
    /\ Cardinality(tasks_pp) = concurrency

\* Every download of f has completed: its output exists, or every raw
\* download is under its finished name.
DownloadsComplete(f) ==
    \/ FinalPath(f) \in DOMAIN fs
    \/ \A i \in Downloads(f) : RenamePath(f, i) \in DOMAIN fs

\* C2: a post-process task for file f is in the post-process queue only when
\* no download of f is queued or in flight and every download of f has
\* completed.
C2_PostProcessAfterDownloads ==
    \A k \in 1..Len(pp_tasks) :
        LET f == pp_tasks[k].file_index
        IN  /\ QueuedFor(dl_tasks, f) = {}
            /\ \A t \in tasks_dl : t.f # f
            /\ DownloadsComplete(f)

\* The loop queued the post-process of the split file after both of its
\* downloads were spawned and completed in this run.
C2_Witness ==
    /\ pc = "loop"
    /\ \E k \in 1..Len(pp_tasks) : pp_tasks[k] = PostProcessParams(SplitFile, FALSE)
    /\ \A i \in Downloads(SplitFile) :
           \E k \in 1..Len(spawned) : spawned[k] = << SplitFile, i >>

\* The directory that one run of the command leaves when nothing interrupts
\* it and no task fails: the version file, the file's directories, every
\* output file, and the splits when --keep-raw is given.
UninterruptedPaths ==
    {VersionPath}
        \cup {DirPath(f) : f \in {g \in Files : FirmwareFiles[g].directory}}
        \cup {FinalPath(f) : f \in Files}
        \cup (IF keep_raw
              THEN UNION {{download_name(f, i) : i \in Downloads(f)} :
                              f \in {g \in Files : is_split(g)}}
              ELSE {})

UninterruptedResult ==
    [p \in UninterruptedPaths |->
        IF p.kind = "ver" THEN version_file
        ELSE IF p.kind = "dir" THEN << >>
        ELSE IF p.kind = "final" THEN Payload(p.f)
        ELSE ServerContent(p.f, p.i)]

\* C3: whenever a run of the command completes successfully, after any number
\* of earlier runs that were interrupted or failed at any point, the output
\* directory holds exactly the files, with exactly the contents, that a single
\* uninterrupted run leaves.
C3_Resumption == pc = "ok" => fs = UninterruptedResult

\* A run has completed that had only a part of the downloads left to do: an
\* earlier run was cut short after it had finished the others.
C3_Witness ==
    /\ pc = "ok"
    /\ spawned # << >>
    /\ Len(spawned) < Cardinality(UNION {{f} \X Downloads(f) : f \in Files})
    /\ fs = UninterruptedResult

\* The payload of the unsplit file f does not have the checksum of the manifest.
BadPayload(f) == ~is_split(f) /\ Crc32(ServerContent(f, 0)) # crc32[f]

\* C4, in a state: the output of an unsplit file with a bad payload does not
\* exist, and every verify of it that ran to its end has failed.
C4_NoFinal ==
    \A f \in Files : BadPayload(f) =>
        /\ FinalPath(f) \notin DOMAIN fs
        /\ \A t \in tasks_pp : t.f = f /\ t.phase = "done" => t.result = "err"

\* C4, in a step: the .verify file of such a file stays as it is.
C4_VerifyStays ==
    \A f \in Files : BadPayload(f) /\ VerifyPath(f) \in DOMAIN fs =>
        /\ VerifyPath(f) \in DOMAIN fs'
        /\ fs'[VerifyPath(f)] = fs[VerifyPath(f)]

\* C4: CRC gate.  For an unsplit file whose payload's checksum differs from
\* FileInfo.crc32, verify fails, the .verify file stays in place and the
\* output name is never created, in this run and in every later run.
C4_CrcGate == [] C4_NoFinal /\ [][C4_VerifyStays]_vars

\* In a later run, which had nothing to download for the file, verify has
\* read the whole .verify file of a bad payload and failed; the file is
\* still there.
C4_Witness ==
    /\ \E t \in tasks_pp :
          /\ BadPayload(t.f)
          /\ \A k \in 1..Len(spawned) : spawned[k][1] # t.f
          /\ t.phase = "done" /\ t.result = "err" /\ ~t.cancel
          /\ VerifyPath(t.f) \in DOMAIN fs
          /\ t.n = Len(fs[VerifyPath(t.f)])
          /\ FinalPath(t.f) \notin DOMAIN fs

\* C5, in a state: an output file that exists holds the whole payload, with
\* the checksum of the manifest.
C5_FinalComplete ==
    \A f \in Files : FinalPath(f) \in DOMAIN fs =>
        /\ fs[FinalPath(f)] = Payload(f)
        /\ Crc32(fs[FinalPath(f)]) = crc32[f]

\* The staging file an output file is renamed from.
StagingPath(f) ==
    IF is_split(f) THEN Path("extract", f, 0) ELSE Path("verify", f, 0)

\* C5, in a step: an output file appears only by the rename of its complete
\* staging file (.verify with a matching checksum, .extract with the whole
\* entry), and is never written afterwards.
C5_FinalByRename ==
    \A f \in Files :
        /\ FinalPath(f) \notin DOMAIN fs /\ FinalPath(f) \in DOMAIN fs' =>
              /\ StagingPath(f) \in DOMAIN fs
              /\ StagingPath(f) \notin DOMAIN fs'
              /\ fs'[FinalPath(f)] = fs[StagingPath(f)]
              /\ Crc32(fs[StagingPath(f)]) = crc32[f]
              /\ fs[StagingPath(f)] = Payload(f)
        /\ FinalPath(f) \in DOMAIN fs =>
              FinalPath(f) \in DOMAIN fs' /\ fs'[FinalPath(f)] = fs[FinalPath(f)]

\* C5: the output name exists only if the artifact is complete.
C5_FinalOnlyComplete == [] C5_FinalComplete /\ [][C5_FinalByRename]_vars

\* Both output files exist, and the split file was extracted and renamed by
\* a task of this run.
C5_Witness ==
    /\ FinalPath(SplitFile) \in DOMAIN fs
    /\ FinalPath(UnsplitFile) \in DOMAIN fs
    /\ \E t \in tasks_pp :
          /\ t.f = SplitFile /\ ~t.clean_only
          /\ t.phase = "done" /\ t.result = "ok"

IsPrefix(a, b) == Len(a) <= Len(b) /\ SubSeq(b, 1, Len(a)) = a

\* A path that is in the directory before a step and not after it was
\* renamed (its contents are under the new name), or it is a split that the
\* cleanup of its file deleted, without --keep-raw and with the file's output
\* in place.
C6_RemovedOnlyBy(p) ==
    \/ /\ p.kind = "download"
       /\ RenamePath(p.f, p.i) \in DOMAIN fs'
       /\ fs'[RenamePath(p.f, p.i)] = fs[p]
    \/ /\ p.kind \in {"verify", "extract"}
       /\ FinalPath(p.f) \in DOMAIN fs'
       /\ fs'[FinalPath(p.f)] = fs[p]
    \/ /\ p.kind = "piece"
       /\ ~keep_raw
       /\ FinalPath(p.f) \in DOMAIN fs
       /\ \E t \in tasks_pp : t.f = p.f /\ t.phase = "clean" /\ ~t.cancel

\* A path that stays: a temp download only grows (what was written stays), a
\* finished split is not touched.
C6_Kept(p) ==
    /\ p.kind = "download" => IsPrefix(fs[p], fs'[p])
    /\ p.kind = "piece" => fs'[p] = fs[p]

\* A step in which download() is left with the error of a task or by ctrl-c,
\* or in which a task ends with an error.  (A failed write of the version
\* file is no task: it may leave that file empty.)
C6_FailureStep ==
    \/ pc # "version" /\ pc' # pc /\ pc' \in {"failed", "interrupted"}
    \/ \E t \in tasks_dl' : t.result = "err" /\ t \notin tasks_dl
    \/ \E t \in tasks_pp' : t.result = "err" /\ t \notin tasks_pp

C6_Step ==
    /\ \A p \in DOMAIN fs :
          IF p \in DOMAIN fs' THEN C6_Kept(p) ELSE C6_RemovedOnlyBy(p)
    /\ C6_FailureStep => fs' = fs

\* C6: no destructive recovery.  A failing task and a cancelled run change
\* nothing in the directory; a finished split keeps its name and contents, a
\* temp download keeps its name and the bytes written so far; splits are
\* deleted only by the cleanup, when the output exists and --keep-raw is off.
C6_NoDestructiveRecovery == [][C6_Step]_vars

\* download() has failed; a finished split and a partly written temp
\* download of the same file are on disk.
C6_Witness ==
    /\ pc = "failed"
    /\ \E i, j \in Downloads(SplitFile) :
          /\ download_name(SplitFile, i) \in DOMAIN fs
          /\ DownloadPath(SplitFile, j) \in DOMAIN fs
          /\ Len(fs[DownloadPath(SplitFile, j)]) > 0
          /\ Len(fs[DownloadPath(SplitFile, j)]) < PieceLen

AllDownloads == UNION {{<< f, i >> : i \in Downloads(f)} : f \in Files}

RECURSIVE TotalSize(_)
\* The sum of the sizes of the raw downloads in the set S.
TotalSize(S) ==
    IF S = {} THEN 0
    ELSE LET x == CHOOSE y \in S : TRUE
         IN  Len(ServerContent(x[1], x[2])) + TotalSize(S \ {x})

RECURSIVE RemainingSize(_)
\* The bytes that the queued download tasks have left to fetch.
RemainingSize(queue) ==
    IF queue = << >> THEN 0
    ELSE Len(ServerContent(Head(queue).file_index, Head(queue).download_index))
             - Head(queue).start_offset + RemainingSize(Tail(queue))

RECURSIVE SumRemain(_)
SumRemain(S) ==
    IF S = {} THEN 0
    ELSE LET f == CHOOSE g \in S : TRUE IN dl_remain[f] + SumRemain(S \ {f})

\* C8: after planning, dl_remain[f] is the number of queued download tasks of
\* file f, and the counters sum up to the length of the queue.
C8_PlannerCounts ==
    pc = "seed" =>
        /\ \A f \in Files : dl_remain[f] = Cardinality(QueuedFor(dl_tasks, f))
        /\ SumRemain(Files) = Len(dl_tasks)

\* A plan of a resumed run with one download left for the split file and
\* none for the unsplit file.
C8_Witness ==
    /\ pc = "seed"
    /\ dl_remain[SplitFile] = 1
    /\ dl_remain[UnsplitFile] = 0
    /\ Len(dl_tasks) = 1

\* C9: within one run no two download tasks, queued or spawned, have the same
\* (file_index, download_index), and no two tasks in flight write the same
\* temp file.
C9_UniqueDownloads ==
    /\ \A j, k \in 1..Len(spawned) : j # k => spawned[j] # spawned[k]
    /\ \A j, k \in 1..Len(dl_tasks) : j # k => Target(dl_tasks[j]) # Target(dl_tasks[k])
    /\ \A j \in 1..Len(spawned), k \in 1..Len(dl_tasks) : spawned[j] # Target(dl_tasks[k])
    /\ \A t, u \in tasks_dl : t.f = u.f /\ t.i = u.i => t = u

\* Every download of the manifest was spawned in this run and two of them are
\* receiving data at the same time.
C9_Witness ==
    /\ Len(spawned) = Cardinality(AllDownloads)
    /\ \E t, u \in tasks_dl : t # u /\ t.phase = "stream" /\ u.phase = "stream"

\* C10: planning changes nothing in the output directory, whether it ends or
\* is cancelled, and the plan it returns is the one that the manifest and the
\* directory determine.
C10_Step ==
    pc = "plan" =>
        /\ fs' = fs
        /\ pc' = "seed" =>
              LET st == compute_initial_state(fs')
              IN  /\ dl_bytes' = st.dl_bytes
                  /\ pp_bytes' = st.pp_bytes
                  /\ dl_remain' = st.dl_remain
                  /\ dl_tasks' = st.dl_tasks
                  /\ pp_tasks' = st.pp_tasks

C13_OkTermination ==
    pc = "ok" =>
        /\ dl_tasks = << >>
        /\ pp_tasks = << >>
        /\ dl_running = 0
        /\ pp_running = 0
        /\ tasks_dl = {}
        /\ tasks_pp = {}

\* download() has returned Ok from a run that spawned every download of the
\* manifest.
C13_Witness ==
    /\ pc = "ok"
    /\ Len(spawned) = Cardinality(AllDownloads)
    /\ dl_running = 0
    /\ pp_running = 0

\* The HEAD that follows a 416 succeeded and reported the length n.
HeadReports(resp, n) ==
    /\ resp.status = RANGE_NOT_SATISFIABLE
    /\ resp.head_status # 0
    /\ ~is_error(resp.head_status)
    /\ resp.head_length = n

\* C14, in a step: when the ranged request of a download task from offset s
\* gets 416 and the HEAD reports a Content-Length of s, NuClient::download
\* returns AlreadyComplete and the task ends successfully in that attempt,
\* with its temp file renamed to the split's name or to the .verify name.
C14_Step ==
    \A t \in tasks_dl :
        (t.phase = "request" /\ t \notin tasks_dl' /\ HeadReports(client'.resp, t.pos)) =>
            /\ client'.result = "AlreadyComplete"
            /\ tasks_dl' = (tasks_dl \ {t}) \cup
                              {[t EXCEPT !.phase = "done", !.result = "ok"]}
            /\ DownloadPath(t.f, t.i) \notin DOMAIN fs'
            /\ RenamePath(t.f, t.i) \in DOMAIN fs'
            /\ fs'[RenamePath(t.f, t.i)] = fs[DownloadPath(t.f, t.i)]

C14_AlreadyComplete == [][C14_Step]_vars

\* A task whose temp file held a whole split has ended successfully on
\* AlreadyComplete, without a retry, and the split has its name.
C14_Witness ==
    /\ client.result = "AlreadyComplete"
    /\ HeadReports(client.resp, PieceLen)
    /\ \E t \in tasks_dl :
          /\ t.phase = "done" /\ t.result = "ok" /\ t.attempt = 0
          /\ is_split(t.f)
          /\ download_name(t.f, t.i) \in DOMAIN fs
          /\ DownloadPath(t.f, t.i) \notin DOMAIN fs

\* The last call got an HTTP status other than 206 and did not resolve to
\* AlreadyComplete.
NotPartialContent ==
    /\ client.result # "none"
    /\ client.resp.status \notin {0, PARTIAL_CONTENT}
    /\ client.result # "AlreadyComplete"

\* C15 as stated: for every HTTP status other than 206 returned to the ranged
\* GET (the 416 case that resolves to AlreadyComplete excluded),
\* NuClient::download fails with BadHttpResponse.
C15_Original == NotPartialContent => client.result = "BadHttpResponse"

\* C15, amended: for every such status NuClient::download fails, with the
\* Request error (of error_for_status, or of the follow-up HEAD) when the
\* status is a client or server error, and with BadHttpResponse otherwise.
C15_NonPartialFails ==
    NotPartialContent =>
        client.result = IF is_error(client.resp.status)
                        THEN "Request" ELSE "BadHttpResponse"

\* The server ignored the range and answered 200: the call failed with
\* BadHttpResponse and the task went on to its next attempt.
C15_Witness ==
    /\ client.resp.status = 200
    /\ client.result = "BadHttpResponse"
    /\ \E t \in tasks_dl : t.attempt = 1 /\ t.phase = "request"

RECURSIVE Concat(_)
\* The byte-wise concatenation of the sequences of ss.
Concat(ss) == IF ss = << >> THEN << >> ELSE Head(ss) \o Concat(Tail(ss))

\* C16: for any ordered list of files of any sizes, zero-length files
\* included, reading a JoinedFile from offset 0 until read returns 0 yields
\* exactly the concatenation of the files without error, and len() is the
\* sum of the file sizes.
C16_JoinedRead ==
    /\ Len(joined.paths) = Len(jfiles) => joined_len(joined) = Len(Concat(jfiles))
    /\ jread.result # "err"
    /\ jread.result = "eof" => jread.data = Concat(jfiles)

\* What a read of one byte at offset o of the overlay c gives.
Peek(c, o, debug) ==
    LET r == cow_read(cow_seek(c, "Start", o).file, 1, 1, debug)
    IN  << r.result, r.data >>

RECURSIVE ReadLoop(_, _)
\* The bytes that reads of the overlay c deliver, for up to k bytes, when
\* the reader delivers one byte at a time.
ReadLoop(c, k) ==
    IF k = 0 THEN << >>
    ELSE LET r == cow_read(c, k, 1, FALSE)
         IN  IF r.result # "Ok" \/ r.data = << >> THEN << >>
             ELSE r.data \o ReadLoop(r.file, k - Len(r.data))

\* C17: before any write, whatever was sought and read so far, a read of the
\* overlay succeeds and delivers the bytes the reader has at the overlay's
\* offset, none exactly at and after the reader's end, and the end that a
\* seek reports is the reader's.
C17_FreshOverlay ==
    DOMAIN cow.blocks = {} =>
        /\ \A buf_len \in 1..MaxBuf, n \in 1..MaxBuf, debug \in BOOLEAN :
              LET r == cow_read(cow, buf_len, n, debug)
              IN  /\ r.result = "Ok"
                  /\ r.data = SubSeq(cow.reader.data, cow.cur_offset + 1,
                                     cow.cur_offset + Len(r.data))
                  /\ r.data = << >> <=> cow.cur_offset >= Len(cow.reader.data)
                  /\ r.file.cur_offset = cow.cur_offset + Len(r.data)
        /\ cow_seek(cow, "End", 0).file.cur_offset = Len(cow.reader.data)

\* Nothing was written, and after a seek back to the start the reader is
\* ahead of the overlay, which is inside the data.
C17_Witness ==
    /\ DOMAIN cow.blocks = {}
    /\ Len(cow.reader.data) = MaxFileLen
    /\ cow.reader.pos = MaxFileLen
    /\ cow.cur_offset = 1
    /\ cow.need_seek

\* The bytes of a write of n bytes.
WriteData(n) == [k \in 1..n |-> 9]

\* C18: in any state of the overlay, after a write W at the offset o, reading
\* |W| bytes from o over short reads gives W, and every offset below the
\* former size that is outside the blocks W touches reads as before.
C18_WriteReadBack ==
    \A n \in 1..MaxBuf :
        LET o == cow.cur_offset
            w == cow_write(cow, WriteData(n))
            touched == (o \div cow.block_size)
                           ..(div_ceil(o + n, cow.block_size) - 1)
        IN  w.result = "Ok" =>
                /\ ReadLoop(cow_seek(w.file, "Start", o).file, n) = WriteData(n)
                /\ \A p \in 0..(cow.cur_size - 1), debug \in BOOLEAN :
                      (p \div cow.block_size) \notin touched =>
                          Peek(w.file, p, debug) = Peek(cow, p, debug)

\* The overlay has a block with original and written bytes, has grown, and
\* is at an offset inside the original data with the reader elsewhere.
C18_Witness ==
    /\ cow.block_size = MaxBlock
    /\ cow.orig_size = MaxFileLen
    /\ 0 \in DOMAIN cow.blocks
    /\ cow.blocks[0][1] = 1
    /\ cow.blocks[0][MaxBlock] = 9
    /\ cow.cur_size > cow.orig_size
    /\ cow.cur_offset = 0

\* Whether a write put the byte at offset o.
Written(c, o) ==
    (o \div c.block_size) \in DOMAIN c.blocks /\ BlockByte(c, o) = 9

\* C19: a write that ends past original_size grows current_size to its end,
\* and every offset in [original_size, current_size) that was never written
\* reads as a zero byte, not as the end of the file, for any block size and
\* any original_size.
C19_SparseExtension ==
    /\ \A n \in 1..MaxBuf :
          cow.cur_offset + n > cow.cur_size =>
              cow_write(cow, WriteData(n)).file.cur_size = cow.cur_offset + n
    /\ \A o \in cow.orig_size..(cow.cur_size - 1), debug \in BOOLEAN :
          ~Written(cow, o) => Peek(cow, o, debug) = << "Ok", << 0 >> >>

\* C20: no read, write or seek of the overlay changes the contents or the
\* length of the reader.
C20_ReaderUnchanged == [][cow'.reader.data = cow.reader.data]_vars

\* The overlay holds a written byte where the reader has original data.
C20_Witness ==
    /\ cow.orig_size = MaxFileLen
    /\ Written(cow, 0)
    /\ Written(cow, MaxFileLen - 1)
    /\ cow.reader.data = [k \in 1..MaxFileLen |-> k]

\* C11: the consumer has received TotalDownload and TotalPostProcess before
\* it receives any Download or PostProcess message of the run, however the
\* tasks and the consumer interleave.
C11_TotalsFirst == received \cap Deltas # {} => Totals \subseteq received

\* The consumer has received a report of a task while another task is about
\* to send one.
C11_Witness ==
    /\ InLoop
    /\ received = Totals \cup Deltas
    /\ Len(progress_rx) > 1
    /\ \E k \in DOMAIN reporting.tasks : reporting.tasks[k].at = "send"

\* The channel is full.
Full == Len(progress_rx) = 2 * reporting.concurrency

\* C12 as stated: the channel holds at most 2*C messages, and when it is full
\* every task that has not ended can take its next step.
C12_Original ==
    /\ Len(progress_rx) <= 2 * reporting.concurrency
    /\ Full =>
          \A k \in DOMAIN reporting.tasks :
              reporting.tasks[k].at \notin {"done", "failed"} =>
                  ENABLED (TaskChunk(k) \/ TaskSend(k) \/ TaskComplete(k))

\* C12: the channel holds at most 2*C messages, and when it is full a task
\* is blocked only at the send of a report, after the transfer that the
\* report is about: a task with no report to send can transfer or complete,
\* and once it has ended and the loop has nothing to spawn it is reaped.
C12_Backpressure ==
    /\ Len(progress_rx) <= 2 * reporting.concurrency
    /\ Full =>
          \A k \in DOMAIN reporting.tasks :
              /\ reporting.tasks[k].at = "io" =>
                    ENABLED (TaskChunk(k) \/ TaskComplete(k))
              /\ reporting.tasks[k].at = "send" => ~ENABLED TaskSend(k)
              /\ /\ reporting.tasks[k].at \in {"done", "failed"}
                 /\ ~CanSpawnDownload /\ ~CanSpawnPostProcess
                 => ENABLED ReportJoin(k)

\* The channel is full and the consumer has received nothing since the loop
\* began; one task is blocked at its send and another has ended.
C12_Witness ==
    /\ Full
    /\ InLoop
    /\ \E k \in DOMAIN reporting.tasks : reporting.tasks[k].at = "send"
    /\ \E k \in DOMAIN reporting.tasks : reporting.tasks[k].at = "done"

\* C21: after fix_offsets has succeeded on a stream, a call of fix_offsets
\* on the same stream with the whole stream as the one disk succeeds and
\* leaves every byte of the stream unchanged.
C21_Step ==
    (repairs # << >> /\ repairs[Len(repairs)] = "Ok" /\ repairs' # repairs) =>
        /\ repairs'[Len(repairs')] = "Ok"
        /\ zip' = zip
C21_RepairIdempotent == [][C21_Step]_vars

\* C22: parse of first "foo001.bin", last "foo003.bin" and count 3 selects
\* the Legacy scheme with prefix "foo", suffix ".bin" and 3 digits; piece 0 is
\* then named foo001.bin and piece 2 foo003.bin.
C22_LegacyScenario ==
    (/\ naming.first = "foo001.bin"
     /\ naming.last = "foo003.bin"
     /\ naming.count = 3
     /\ naming.zip_naming # Unparsed) =>
        /\ naming.zip_naming = Legacy("foo", ".bin", 3)
        /\ Len(naming.names) >= 1 => naming.names[1] = "foo001.bin"
        /\ Len(naming.names) >= 3 => naming.names[3] = "foo003.bin"

\* C22, as the code has it: parse of first "foo.bin" (the name with the
\* number left out), last "foo003.bin" and count 3 selects the Legacy scheme
\* with prefix "foo", suffix ".bin" and 3 digits; piece 0 is then named
\* foo001.bin and piece 2 foo003.bin.
C22_LegacyNumberOmitted ==
    (/\ naming.first = "foo.bin"
     /\ naming.last = "foo003.bin"
     /\ naming.count = 3
     /\ naming.zip_naming # Unparsed) =>
        /\ naming.zip_naming = Legacy("foo", ".bin", 3)
        /\ Len(naming.names) >= 1 => naming.names[1] = "foo001.bin"
        /\ Len(naming.names) >= 3 => naming.names[3] = "foo003.bin"
\* The three pieces of foo are named.
C22_Witness ==
    /\ naming.first = "foo.bin"
    /\ naming.last = "foo003.bin"
    /\ naming.count = 3
    /\ Len(naming.names) = 3

\* The names of the modern scheme as the server reports them.
C23_Reported ==
    /\ naming.count >= 2
    /\ \E b \in BaseNames :
          /\ naming.first = b \o ".zip"
          /\ naming.last = b \o ".z" \o PadZero(to_string(naming.count - 1), 2)
C23_Base == SubSeq(naming.first, 1, Len(naming.first) - 4)

\* C23: for a count of at least 2, parse of first <base>.zip and last
\* <base>.z<count-1> selects Standard{base, count}; piece i is named
\* <base>.z<i+1> (two digits) when i < count-1 and <base>.zip when
\* i = count-1, and the names of the pieces are pairwise distinct.
C23_StandardNames ==
    (C23_Reported /\ naming.zip_naming # Unparsed) =>
        /\ naming.zip_naming = Standard(C23_Base, naming.count)
        /\ \A k \in 1..Len(naming.names) :
              naming.names[k] =
                  IF k - 1 < naming.count - 1
                  THEN C23_Base \o ".z" \o PadZero(to_string(k), 2)
                  ELSE C23_Base \o ".zip"
        /\ \A j, k \in 1..Len(naming.names) :
              j # k => naming.names[j] # naming.names[k]
\* The three pieces of pkg are named.
C23_Witness ==
    /\ C23_Reported
    /\ naming.names = << "pkg.z01", "pkg.z02", "pkg.zip" >>

\* A File was converted to a FileInfo.
C24_Converted == file_info # << >> /\ file_info.result.err = ""
\* 2^32 of 64 bits.
C24_TwoTo32 == << 0, 0, 1, 0 >>
\* What the claim says of the wire value v and the size that was kept.
C24_Recovered(v, kept) ==
    /\ (IsNegative(v) /\ v[3] = Limb - 1 /\ v[4] = Limb - 1 /\ v[2] >= Limb \div 2)
           => kept = Add64(v, C24_TwoTo32, 0)
    /\ ~IsNegative(v) => kept = v

\* C24: the conversion of a File keeps a file_size or zip_file_size v with
\* -2^31 <= v < 0 as v + 2^32, and one with v >= 0 as v, also when
\* v >= 2^31.
C24_SizesRecovered ==
    C24_Converted =>
        /\ C24_Recovered(parse_i64(file_info.file.file_size).value,
                         file_info.result.size)
        /\ C24_Recovered(parse_i64(file_info.file.zip_file_size).value,
                         file_info.result.zip_size)
\* -294967296 was kept as 4000000000 = 61035 * 65536 + 10240, and 2^32 as
\* it is.
C24_Witness ==
    /\ C24_Converted
    /\ file_info.file.file_size = "-294967296"
    /\ file_info.result.size = << 10240, 61035, 0, 0 >>
    /\ file_info.file.zip_file_size = "4294967296"
    /\ file_info.result.zip_size = << 0, 0, 1, 0 >>

\* The directory d without the files of f.
WithoutFile(d, f) == [p \in {q \in DOMAIN d : q.f # f} |-> d[p]]
\* The tasks of file f in a queue, in the order of the queue.
TasksOf(queue, f) == SelectSeq(queue, LAMBDA t : t.file_index = f)
\* The positions in dl_tasks of the tasks for download i of f.
DownloadTasksOf(f, i) ==
    {k \in 1..Len(dl_tasks) :
        dl_tasks[k].file_index = f /\ dl_tasks[k].download_index = i}

\* C25: for a file whose output file exists, the planner queues no download,
\* adds the file's download size to dl_bytes and its size to pp_bytes, and
\* queues one post-process task with clean_only = true when the file is
\* split and none when it is not, whatever other files exist.
C25_FinalPresent ==
    pc = "seed" =>
        \A f \in Files :
            FinalPath(f) \in DOMAIN fs =>
                LET rest == compute_initial_state(WithoutFile(fs, f))
                IN  /\ TasksOf(dl_tasks, f) = << >>
                    /\ dl_bytes = rest.dl_bytes + download_size(f)
                    /\ pp_bytes = rest.pp_bytes + size(f)
                    /\ TasksOf(pp_tasks, f) =
                           IF is_split(f)
                           THEN << PostProcessParams(f, TRUE) >>
                           ELSE << >>
\* The output file of the split file is there with pieces and temporary
\* files, and the plan was made.
C25_Witness ==
    /\ pc = "seed"
    /\ {FinalPath(SplitFile), FinalPath(UnsplitFile), VerifyPath(UnsplitFile),
        download_name(SplitFile, 0), DownloadPath(SplitFile, 1)}
           \subseteq DOMAIN fs
    /\ pp_tasks = << PostProcessParams(SplitFile, TRUE) >>
    /\ dl_bytes = download_size(SplitFile) + download_size(UnsplitFile)

\* Whether the files of f can be looked at, and its output file is absent.
C26_FinalAbsent(f) == FinalPath(f) \notin DOMAIN fs
\* The size of the temporary file of download i of f.
C26_StartOffset(f, i) ==
    IF DirOpens(fs, f) /\ DownloadPath(f, i) \in DOMAIN fs
    THEN Len(fs[DownloadPath(f, i)]) ELSE 0
\* The tasks are in the order of the manifest, then of the pieces.
C26_InOrder ==
    \A j, k \in 1..Len(dl_tasks) :
        j < k =>
            \/ dl_tasks[j].file_index < dl_tasks[k].file_index
            \/ /\ dl_tasks[j].file_index = dl_tasks[k].file_index
               /\ dl_tasks[j].download_index < dl_tasks[k].download_index
\* No post-process task is queued for a file with a download task.
C26_NoPostProcess ==
    \A f \in Files :
        TasksOf(dl_tasks, f) # << >> => TasksOf(pp_tasks, f) = << >>
\* Exactly one task for download i of f, from the size of its temporary file.
C26_OneTask(f, i) ==
    /\ Cardinality(DownloadTasksOf(f, i)) = 1
    /\ \A k \in DownloadTasksOf(f, i) :
          dl_tasks[k].start_offset = C26_StartOffset(f, i)

\* C26 as stated: for a file whose output file is absent, a piece whose
\* finished name exists yields no download task and every other piece yields
\* exactly one, whose start_offset is the size of the piece's temporary file
\* (0 when there is none or when the file's directory does not exist); the
\* tasks are in manifest order then piece order, and a file with a download
\* task has no post-process task.
C26_Original ==
    pc = "seed" =>
        /\ \A f \in Files : \A i \in 0..(download_count(f) - 1) :
              C26_FinalAbsent(f) =>
                  IF DirOpens(fs, f) /\ download_name(f, i) \in DOMAIN fs
                  THEN DownloadTasksOf(f, i) = {}
                  ELSE C26_OneTask(f, i)
        /\ C26_InOrder
        /\ C26_NoPostProcess

\* C26, as the code has it: the same, but the download of a file that is not
\* split yields no download task when its unverified file exists.
C26_ResumeOffsets ==
    pc = "seed" =>
        /\ \A f \in Files : \A i \in 0..(download_count(f) - 1) :
              C26_FinalAbsent(f) =>
                  IF DirOpens(fs, f)
                     /\ \/ download_name(f, i) \in DOMAIN fs
                        \/ ~is_split(f) /\ VerifyPath(f) \in DOMAIN fs
                  THEN DownloadTasksOf(f, i) = {}
                  ELSE C26_OneTask(f, i)
        /\ C26_InOrder
        /\ C26_NoPostProcess
\* The first piece is partly downloaded and the second is finished: one task
\* resumes the first piece, after the task of the file before it.
C26_Witness ==
    /\ pc = "seed"
    /\ download_name(SplitFile, 1) \in DOMAIN fs
    /\ dl_tasks = << DownloadParams(UnsplitFile, 0, 0),
                     DownloadParams(SplitFile, 0, 1) >>
    /\ pp_tasks = << >>

\* C27: a file whose output file is absent and for which no download task
\* was queued gets exactly one post-process task, with clean_only = false;
\* a file that is not split and has an unverified file gets no download
\* task, also when a temporary download file exists.
C27_EverythingOnDisk ==
    pc = "seed" =>
        \A f \in Files :
            /\ (FinalPath(f) \notin DOMAIN fs /\ TasksOf(dl_tasks, f) = << >>)
                   => TasksOf(pp_tasks, f) = << PostProcessParams(f, FALSE) >>
            /\ (/\ ~is_split(f)
                /\ FinalPath(f) \notin DOMAIN fs
                /\ VerifyPath(f) \in DOMAIN fs)
                   => TasksOf(dl_tasks, f) = << >>
\* The unverified file and a temporary file of the file that is not split
\* exist, the pieces of the split file are finished while a temporary file
\* of the other is there: both files are post-processed.
C27_Witness ==
    /\ pc = "seed"
    /\ {VerifyPath(UnsplitFile), DownloadPath(UnsplitFile, 0)} \subseteq DOMAIN fs
    /\ dl_tasks = << >>
    /\ pp_tasks = << PostProcessParams(UnsplitFile, FALSE),
                     PostProcessParams(SplitFile, FALSE) >>

\* The temporary file of a download task, and what it holds.
C28_TempPath(t) == DownloadPath(t.f, t.i)
C28_TempSize(t) == Len(ContentsOf(fs, C28_TempPath(t)))
\* The task has renamed its temporary file.
C28_Renamed(t) ==
    /\ C28_TempPath(t) \notin DOMAIN fs
    /\ RenamePath(t.f, t.i) \in DOMAIN fs
\* The temporary file is in place, and was not renamed.
C28_InPlace(t) ==
    /\ C28_TempPath(t) \in DOMAIN fs
    /\ RenamePath(t.f, t.i) \notin DOMAIN fs
\* The calls of the task, and how it ends.
C28_Outcome ==
    \A t \in tasks_dl :
        /\ client.calls <= retries + 1
        /\ C28_Renamed(t) <=> (t.phase = "done" /\ t.result = "ok")
        /\ (t.phase = "done" /\ t.result = "ok") =>
               client.result \in {"Stream", "AlreadyComplete"}
        /\ (t.phase = "done" /\ t.result = "err") <=>
               /\ client.calls = retries + 1
               /\ t.phase \notin {"request", "stream"}
               /\ C28_InPlace(t)
\* A call requests the range from where the temporary file ends.
C28_Call ==
    \A t \in tasks_dl :
        client' # client => client'.start = C28_TempSize(t)

C29_Failed(t) == t.phase = "done" /\ t.result = "err"
\* The post-process tasks of file f that are queued or were spawned.
C29_PostProcessOf(f) ==
    {t \in tasks_pp : t.f = f}
        \cup {k \in 1..Len(pp_tasks) : pp_tasks[k].file_index = f}
\* While download() runs, a file with a failed download has no post-process
\* task; once download() has returned the error, nothing is queued.
C29_State ==
    /\ pc = "loop" =>
          \A t \in tasks_dl : C29_Failed(t) => C29_PostProcessOf(t.f) = {}
    /\ pc = "failed" => dl_tasks = << >> /\ pp_tasks = << >>
\* The result of a task that leaves the JoinSet while download() runs is an
\* error only when download() returns with it; after that no task is spawned
\* until the command is run again.
C29_Step ==
    /\ \A t \in tasks_dl \cup tasks_pp :
          (/\ pc = "loop"
           /\ C29_Failed(t)
           /\ t \notin tasks_dl' \cup tasks_pp'
           /\ pc' # "interrupted")
              => /\ pc' = "failed"
                 /\ spawned' = spawned
                 /\ tasks_dl' = {}
                 /\ tasks_pp' \subseteq tasks_pp
    /\ (pc = "failed" /\ pc' = "failed") =>
          /\ spawned' = spawned
          /\ tasks_dl' = {}
          /\ \A t \in tasks_pp' \ tasks_pp :
                \E u \in tasks_pp \ tasks_pp' : u.f = t.f

\* C29: the first result of a task that is an error makes download() return
\* it: the loop then spawns no download and no post-process task, and a file
\* with a failed download gets no post-process task in that run.
C29_FirstErrorReturns == [](C29_State) /\ [][C29_Step]_vars
\* download() has returned the error of a download while the post-process
\* task of the other file is at work.
C29_Witness ==
    /\ pc = "failed"
    /\ spawned # << >>
    /\ \E t \in tasks_pp : t.phase \notin {"start", "done"}

\* The task is in one of its loops, with an iteration to make.
C30_InLoop(t) ==
    \/ t.phase \in {"verify", "extract"}
    \/ t.phase = "clean" /\ ~keep_raw /\ t.n < download_count(t.f)
\* A step of a cancelled task that is in a loop ends it with the error: no
\* chunk is read or written and no piece is deleted.
C30_Interrupted ==
    \A t \in tasks_pp :
        (t.cancel /\ C30_InLoop(t) /\ t \notin tasks_pp') =>
            /\ tasks_pp' = (tasks_pp \ {t}) \cup {PostProcessDone(t, "err")}
            /\ fs' = fs
\* The guard of a task is dropped with the future of download(): the flag of
\* a task that has not ended is then set, and stays set.
C30_GuardDropped ==
    \A t \in tasks_pp :
        /\ (pc \in {"failed", "interrupted"} /\ t.phase # "done" /\ ~t.cancel) =>
               ENABLED CancelPostProcess(t)
        /\ t.cancel => \A u \in tasks_pp' : u.f = t.f => u.cancel

C31_Written == VersionPath \in DOMAIN fs /\ fs[VersionPath] = version_file
\* Nothing is planned, and no task was spawned in this run.
C31_NothingStarted ==
    /\ dl_tasks = << >>
    /\ pp_tasks = << >>
    /\ spawned = << >>
    /\ tasks_dl = {}
    /\ tasks_pp = {}
\* Planning, the loop and the tasks of a run have the version file written.
C31_State ==
    (pc \in {"plan", "seed", "loop"} \/ tasks_dl # {} \/ spawned # << >>)
        => C31_Written
\* The step after download() was entered writes the file and goes on to
\* planning, or returns the error with nothing planned or spawned.
C31_Step ==
    pc = "version" =>
        /\ C31_NothingStarted
        /\ \/ pc' = "plan" /\ C31_Written' /\ C31_NothingStarted'
           \/ pc' = "failed" /\ C31_NothingStarted'

\* C31: the version file is written in full before planning starts and
\* before a download or post-process task is spawned; when the write fails,
\* download() returns the error and nothing is planned or spawned.
C31_VersionFirst == [](C31_State) /\ [][C31_Step]_vars
\* A download is streamed in a run whose version file was written.
C31_Witness ==
    /\ pc = "loop"
    /\ \E t \in tasks_dl : t.phase = "stream"
    /\ C31_Written


\* The split the view is positioned in holds the offset, or is empty and
\* ends at it; with no split the offset is at or after the end.
C32_Positioned ==
    IF joined.cur_split = None
    THEN joined.cur_offset >= joined_len(joined)
    ELSE /\ joined.cur_split \in 0..(Len(joined.splits) - 1)
         /\ joined.splits[joined.cur_split + 1].start <= joined.cur_offset
         /\ joined.cur_offset <= joined.splits[joined.cur_split + 1].end
\* The one handle of the view is none or that of one of its files.
C32_OneHandle ==
    joined.cur_file \in {None} \cup (0..(Len(joined.paths) - 1))
\* A read with split i selected delivers bytes of file i from the offset
\* within it, no more than the split has left, and holds the handle of i.
C32_Step ==
    (Len(joined.paths) = Len(jfiles) /\ jseek'.op = "read"
        /\ joined.cur_split # None) =>
        LET i == joined.cur_split
            range == joined.splits[i + 1]
            got == jseek'.data
        IN  /\ Len(got) <= range.end - joined.cur_offset
            /\ \A b \in 1..Len(got) :
                  got[b] = jfiles[i + 1][joined.cur_offset - range.start + b]
            /\ joined'.cur_offset = joined.cur_offset + Len(got)
            /\ joined'.cur_offset <= range.end
            /\ joined'.cur_file = i
\* C32: one read of a JoinedFile positioned in piece i reads from piece i
\* only and returns at most the bytes between the offset and the end of
\* piece i, so that the offset never passes the end of the piece the read
\* started in; the view holds at most one file handle at any time.
C32_ReadWithinPiece ==
    [](C32_Positioned /\ C32_OneHandle) /\ [][C32_Step]_vars
\* A read that a seek placed at the last byte of the second of three pieces
\* delivered that byte and stopped at the end of the piece, with its handle.
C32_Witness ==
    /\ jseek.op = "read" /\ jseek.result = "Ok"
    /\ Len(joined.splits) = 3
    /\ joined.cur_file = 1 /\ joined.cur_split = 2
    /\ jseek.data = << jfiles[2][Len(jfiles[2])] >>
    /\ joined.cur_offset = joined.splits[2].end

\* A step of C33: a seek to an offset at or after len() succeeds and returns
\* that offset; a read while the last seek went there delivers nothing,
\* without error; the read after a seek to an offset below len() delivers
\* the bytes at that offset.
C33_Step ==
    Len(joined.paths) = Len(jfiles) =>
        /\ jseek'.op = "seek" /\ joined'.cur_offset >= joined_len(joined)
               /\ jseek'.result = "Ok"
           => jseek'.value = joined'.cur_offset /\ jseek'.beyond
        /\ jseek'.op = "read" /\ jseek.beyond
           => /\ jseek'.result = "Ok" /\ jseek'.data = << >>
              /\ joined'.cur_offset = joined.cur_offset
        /\ jseek'.op = "read" /\ jseek.op = "seek" /\ jseek.result = "Ok"
               /\ ~jseek.beyond
           => /\ jseek'.result = "Ok" /\ jseek'.data # << >>
              /\ \A b \in 1..Len(jseek'.data) :
                    jseek'.data[b] = Concat(jfiles)[jseek.value + b]
\* C33: seeking a JoinedFile to any offset at or after len() succeeds and
\* returns that offset; every read that follows returns 0 bytes without
\* error until a seek moves the offset below len(), and then reads return
\* the bytes at that offset.
C33_SeekPastEnd == [][C33_Step]_vars

\* The kinds of the blocks that hold the len bytes at the offset of c: TRUE
\* for a block of the overlay, FALSE for a block of the reader.
C34_Kinds(c, len) ==
    {is_cow_block(c, b) :
        b \in (c.cur_offset \div c.block_size)
                  ..((c.cur_offset + len - 1) \div c.block_size)}

\* C34: in any state of the overlay, the bytes that one read delivers lie in
\* blocks of one kind only, judged block by block: all of the overlay (in
\* the map, or starting at or after original_size) or all of the reader; the
\* read moves the offset by what it delivers and stops where the kind
\* changes.
C34_OneKindPerRead ==
    \A buf_len \in 0..MaxBuf, n \in 1..MaxBuf, debug \in BOOLEAN :
        LET r == cow_read(cow, buf_len, n, debug)
        IN  /\ Cardinality(C34_Kinds(cow, Len(r.data))) <= 1
            /\ r.result = "Ok" =>
                  r.file.cur_offset = cow.cur_offset + Len(r.data)
            /\ r.result # "Ok" => r.data = << >>

\* The overlay is at the start of a block of the reader that a block of the
\* map follows, with data that a buffer of MaxBuf bytes would take from
\* both, and the read stops at the end of the first block.
C34_Witness ==
    /\ cow.block_size = 1
    /\ cow.cur_offset = 0
    /\ ~is_cow_block(cow, 0)
    /\ 1 \in DOMAIN cow.blocks
    /\ cow.cur_size >= 2
    /\ MaxBuf >= 2
    /\ Len(cow_read(cow, MaxBuf, MaxBuf, FALSE).data) = 1

\* C35: a write never writes a part: when it succeeds the offset has moved
\* by the whole length of the buffer and all of its bytes read back; when a
\* read of an original block from the reader fails, write returns the error
\* and the overlay is as it was to its user: every offset reads the same
\* byte, and current_size and current_offset are unchanged.
C35_AllOrNothing ==
    \A n \in 1..MaxBuf :
        LET w == cow_write(cow, WriteData(n))
        IN  /\ w.result = "Ok"
            /\ w.file.cur_offset = cow.cur_offset + n
            /\ ReadLoop(cow_seek(w.file, "Start", cow.cur_offset).file, n)
                   = WriteData(n)
            /\ \A k \in 1..Cardinality(CowBlocks(cow, cow.cur_offset + n)),
                  pos \in 0..Len(cow.reader.data) :
                  LET f == write_failed(cow, WriteData(n), k, pos)
                  IN  /\ f.result # "Ok"
                      /\ f.file.cur_size = cow.cur_size
                      /\ f.file.cur_offset = cow.cur_offset
                      /\ \A p \in 0..MaxSize, debug \in BOOLEAN :
                            Peek(f.file, p, debug) = Peek(cow, p, debug)

\* A write that began inside one block of original data and ended inside
\* the next failed at its second read: the first block is in the map with
\* the bytes of the reader, the second is not, and the offset is where the
\* write began.
C35_Witness ==
    /\ cow.block_size = 2
    /\ cow.orig_size = 3
    /\ DOMAIN cow.blocks = {0}
    /\ cow.blocks[0] = << 1, 2 >>
    /\ cow.cur_offset = 1
    /\ cow.cur_size = 3
    /\ cow.need_seek

\* In a state of C40: the reader is at the offset of the overlay unless a
\* seek of the reader is due, and the overlay is no smaller than the reader.
C40_State ==
    /\ ~cow.need_seek => cow.reader.pos = cow.cur_offset
    /\ cow.orig_size <= cow.cur_size
\* In a step of C40: the size of the overlay does not decrease, and the
\* original size stays.
C40_Step ==
    /\ cow'.cur_size >= cow.cur_size
    /\ cow'.orig_size = cow.orig_size
\* C40: in every state of the overlay that reads, writes and seeks reach,
\* failed ones included, need_seek == false implies that the reader is at
\* current_offset, and original_size <= current_size with current_size never
\* decreasing.
C40_Invariants == [](C40_State) /\ [][C40_Step]_vars

\* After writes that grew the overlay and a failed seek of the reader, a
\* read of original data has brought the reader to the offset.
C40_Witness ==
    /\ ~cow.need_seek
    /\ cow.cur_offset = 2
    /\ cow.reader.pos = 2
    /\ cow.cur_size > cow.orig_size
    /\ DOMAIN cow.blocks # {}
    /\ ~panicked

\* The result of the call of fix_offsets that a step makes.
Returned == repairs'[Len(repairs')]
\* A step is a call of fix_offsets on a stream that begins with magic.
CallOn(magic) ==
    /\ repairs' # repairs
    /\ Len(zip) >= 4 /\ Slice(zip, 0, 4) = magic

\* What a call of fix_offsets does with the first four bytes.
C36_Step ==
    /\ CallOn(MAGIC_LOCAL) => Returned = "Ok" /\ zip' = zip
    /\ CallOn(MAGIC_SPLIT) =>
          /\ Slice(zip', 0, 4) = Zeros(4)
          /\ Returned # "InvalidSplitMagic"
          /\ Returned = FixFromEocd(Put(zip, 0, << 0, 0, 0, 0 >>),
                                    disk_ranges).result
    /\ (repairs' # repairs /\ Len(zip) >= 4
           /\ Slice(zip, 0, 4) \notin {MAGIC_LOCAL, MAGIC_SPLIT}) =>
          Returned = "InvalidSplitMagic" /\ zip' = zip
\* C36: when the first four bytes of the stream are PK\x03\x04, fix_offsets
\* succeeds and changes no byte; when they are PK\x07\x08, it writes four
\* zero bytes over them and goes on to the records; with any other four
\* bytes it fails with InvalidSplitMagic and changes no byte.
C36_FirstMagic == [][C36_Step]_vars

\* A split stream was repaired, its magic is wiped and its records changed;
\* the next call found the wiped magic and refused it.
C36_Witness ==
    /\ repairs = << "Ok", "InvalidSplitMagic" >>
    /\ Slice(zip, 0, 4) = Zeros(4)
    /\ Len(disk_ranges) = 1

\* The end of the central directory of a stream: where the zip64 records
\* begin, or the EOCD.
CdEnd(file) ==
    IF /\ Len(file) >= EOCD_SIZE + LOCATOR_SIZE + EOCD64_SIZE
       /\ Slice(file, Len(file) - EOCD_SIZE - LOCATOR_SIZE,
                Len(file) - EOCD_SIZE - LOCATOR_SIZE + 4) = MAGIC_EOCD64_LOCATOR
    THEN Len(file) - EOCD_SIZE - LOCATOR_SIZE - EOCD64_SIZE
    ELSE Len(file) - EOCD_SIZE

RECURSIVE EntryStarts(_, _)
\* The offsets of the entries of the central directory of file from p on.
EntryStarts(file, p) ==
    IF p + CD_ENTRY_SIZE > CdEnd(file) THEN {}
    ELSE {p} \cup EntryStarts(file,
                     p + CD_ENTRY_SIZE + U16(Slice(file, p + 28, p + 30))
                       + U16(Slice(file, p + 30, p + 32))
                       + U16(Slice(file, p + 32, p + 34)))

\* The records name the central directory where it is.
CdNamed ==
    LET eocd == Len(zip) - EOCD_SIZE
        disk == U16(Slice(zip, eocd + 4, eocd + 6))
    IN  /\ disk < Len(disk_ranges)
        /\ disk_ranges[disk + 1].start + Val(Slice(zip, eocd + 16, eocd + 20))
               = CdStart

\* min(start + old, 2^32 - 1) as four little-endian bytes, for a start below
\* 2^16, in halves of 16 bits.
Clamped(start, old) ==
    LET lo == old[1] + 256 * old[2] + start
        hi == old[3] + 256 * old[4] + lo \div 65536
    IN  IF hi >= 65536 THEN << 255, 255, 255, 255 >>
        ELSE << lo % 256, (lo \div 256) % 256, hi % 256, hi \div 256 >>

\* What a call of fix_offsets on a split stream does with the entries.
C37_Step ==
    CallOn(MAGIC_SPLIT) =>
        LET starts == EntryStarts(zip, CdStart)
            disk(p) == U16(Slice(zip, p + 34, p + 36))
        IN  /\ Returned = "Ok" =>
                  \A p \in starts :
                      IF disk(p) = DISK_IN_ZIP64
                      THEN /\ Slice(zip', p + 34, p + 36) = Slice(zip, p + 34, p + 36)
                           /\ Slice(zip', p + 42, p + 46) = Slice(zip, p + 42, p + 46)
                      ELSE /\ disk(p) < Len(disk_ranges)
                           /\ Slice(zip', p + 34, p + 36) = << 0, 0 >>
                           /\ Slice(zip', p + 42, p + 46) =
                                  Clamped(disk_ranges[disk(p) + 1].start,
                                          Slice(zip, p + 42, p + 46))
            /\ (CdNamed /\ starts # {} /\ disk(CdStart) # DISK_IN_ZIP64
                    /\ disk(CdStart) >= Len(disk_ranges)) =>
                  Returned = "MissingDisk"
            /\ Returned # "Ok" =>
                  Slice(zip', CdStart, CdEnd(zip)) = Slice(zip, CdStart, CdEnd(zip))
\* C37: when fix_offsets succeeds on a split stream, every entry of the
\* central directory whose 16-bit disk d is not 0xffff has the offset
\* min(disk_ranges[d].start + old offset, 2^32 - 1) and the disk 0, and every
\* entry with disk 0xffff has both fields as before; an entry whose disk is
\* not 0xffff and not below the number of disk ranges makes the call fail
\* with MissingDisk; and when the call fails the central directory is as it
\* was.
C37_OffsetTranslation == [][C37_Step]_vars

\* A stream of two disks was repaired whose first entry was at the largest
\* 32-bit offset of the second disk: its offset is 2^32 - 1 and its disk 0.
C37_Witness ==
    /\ repairs = << "Ok" >>
    /\ Len(zip) > CdStart + CD_ENTRY_SIZE
    /\ Slice(zip, CdStart + 42, CdStart + 46) = << 255, 255, 255, 255 >>
    /\ Slice(zip, CdStart + 34, CdStart + 36) = << 0, 0 >>
    /\ Slice(zip, Len(zip) - EOCD_SIZE + 16, Len(zip) - EOCD_SIZE + 20)
           = ToLE(CdStart, 4)
    /\ Slice(zip, 0, 4) = Zeros(4)

RECURSIVE BlocksOf(_, _, _)
\* The blocks of the extra fields file[q..end] as their lengths declare them:
\* where each begins, its tag and its length.
BlocksOf(file, q, end) ==
    IF end - q < 4 THEN {}
    ELSE LET declared == U16(Slice(file, q + 2, q + 4))
         IN  {[at |-> q, id |-> U16(Slice(file, q, q + 2)), size |-> declared]}
                 \cup BlocksOf(file, q + 4 + declared, end)

\* The blocks of the extra fields of the entry at p.
ExtraBlocks(file, p) ==
    LET extra == p + CD_ENTRY_SIZE + U16(Slice(file, p + 28, p + 30))
    IN  BlocksOf(file, extra, extra + U16(Slice(file, p + 30, p + 32)))

\* What a call of fix_offsets on a split stream does with the extra fields.
C38_Step ==
    CallOn(MAGIC_SPLIT) =>
        /\ Returned # "CdExtraTruncated"
        /\ \A p \in EntryStarts(zip, CdStart) :
              \A b \in ExtraBlocks(zip, p) :
                  (b.id # ZIP64_EXTRA_ID \/ b.size < ZIP64_EXTRA_SIZE) =>
                      Slice(zip', b.at, b.at + 4 + b.size)
                          = Slice(zip, b.at, b.at + 4 + b.size)
\* C38: in a call of fix_offsets on a split stream whose extra fields are
\* whole, a block of the extra fields with a tag other than 0x0001, or with
\* the tag 0x0001 and a declared length below 28, is left byte for byte as
\* it was, and the call does not fail for an extra field.
C38_ExtraFields == [][C38_Step]_vars

\* File f had a download or a post-process task in the plan.
C39_Planned(f) == reporting.plan[f] > 0 \/ f \in reporting.pp_plan
\* No download of the plan has run more than once, no download that was not
\* planned has run, and no file has had more than one post-process task.
C39_AtMostOnce ==
    \A f \in Files :
        /\ reporting.dl_ran[f] <= reporting.plan[f]
        /\ reporting.pp_ran[f] <= 1
\* download() has returned Ok; every planned download has run once and every
\* file of the plan has had its one post-process task.
C39_Done ==
    /\ reporting.pc = "ok"
    /\ \A f \in Files :
          /\ reporting.dl_ran[f] = reporting.plan[f]
          /\ C39_Planned(f) => reporting.pp_ran[f] = 1
\* C39: whatever the plan and the concurrency, when every spawned task
\* completes successfully and the consumer keeps receiving, download()
\* eventually returns Ok with every planned download run exactly once and
\* exactly one post-process task run for every file of the plan; at no time
\* has a file had more than one post-process task.
C39_Liveness == [](C39_AtMostOnce) /\ <>(C39_Done)

\* download() has returned Ok after a run with two downloads of one file and
\* none of another, while the consumer still has messages to receive.
C39_Witness ==
    /\ reporting.pc = "ok"
    /\ \E f, g \in Files : reporting.plan[f] = 2 /\ reporting.plan[g] = 0
    /\ \A f \in Files : reporting.dl_ran[f] = reporting.plan[f]
                            /\ reporting.pp_ran[f] = 1
    /\ reporting.concurrency = 1
    /\ progress_rx # << >>
====
